---------------------------- MODULE Spec2Model ----------------------------
(***************************************************************************)
(* Sender-Receiver signaling game (Youmelo/D-L-SignalingGame).             *)
(*                                                                         *)
(* The module models the callable endpoint submitSenderReceiverAction      *)
(* (functions/src/stages/sender_receiver.endpoints.ts), the helpers it     *)
(* uses (sender_receiver.utils.ts) and the balanced default generator of   *)
(* the utils package (SeededRandom, generateBalancedDefaults).             *)
(*                                                                         *)
(* The stage's public data document is the variable publicData.  The body  *)
(* of runTransaction is one atomic step: Firestore serialises the          *)
(* transactions on the document, so a race of two calls is one of the two  *)
(* orders of their steps.                                                  *)
(***************************************************************************)
EXTENDS Integers, Sequences, FiniteSets, TLC

(***************************************************************************)
(* JavaScript numbers.  The generator multiplies a 31-bit state by a       *)
(* 31-bit constant in IEEE-754 double precision, so the product is rounded *)
(* to 53 significant bits before the bit mask is applied.  TLC's integers  *)
(* are 32 bits wide; wider values are held as five little-endian limbs of  *)
(* 15 bits.                                                                *)
(***************************************************************************)
LimbBase == 32768

\* In the operators below a set constructor over a singleton binds the value
\* of an argument, so that it is computed once however often it is used.
RECURSIVE Carry(_, _)
Carry(digits, carry) ==
    CHOOSE out \in
        {IF d = <<>> THEN <<>>
         ELSE <<(Head(d) + c) % LimbBase>>
              \o Carry(Tail(d), (Head(d) + c) \div LimbBase) :
            d \in {digits}, c \in {carry}} : TRUE

BigFromInt(n) == <<n % LimbBase, (n \div LimbBase) % LimbBase,
                   n \div (LimbBase * LimbBase), 0, 0>>

BigAdd(x, y) ==
    CHOOSE out \in {Carry([i \in 1..5 |-> a[i] + b[i]], 0) :
                       a \in {x}, b \in {y}} : TRUE

BigMulSmall(x, k) ==
    CHOOSE out \in {Carry([i \in 1..5 |-> a[i] * m], 0) :
                       a \in {x}, m \in {k}} : TRUE

BigShift(x, n) ==
    CHOOSE out \in {[i \in 1..5 |-> IF i > n THEN a[i - n] ELSE 0] :
                       a \in {x}} : TRUE

\* x * y for y < 2^45
BigMul(x, y) ==
    CHOOSE out \in
        {BigAdd(BigAdd(BigMulSmall(a, b[1]), BigShift(BigMulSmall(a, b[2]), 1)),
                BigShift(BigMulSmall(a, b[3]), 2)) :
            a \in {x}, b \in {y}} : TRUE

RECURSIVE Pow2(_)
Pow2(k) == IF k = 0 THEN 1 ELSE 2 * Pow2(k - 1)

RECURSIVE SmallBitLen(_)
SmallBitLen(n) == IF n = 0 THEN 0 ELSE 1 + SmallBitLen(n \div 2)

BigBitLen(a) ==
    IF \A i \in 1..5 : a[i] = 0 THEN 0
    ELSE LET top == CHOOSE i \in 1..5 : a[i] # 0 /\ \A j \in (i+1)..5 : a[j] = 0
         IN  15 * (top - 1) + SmallBitLen(a[top])

\* The IEEE-754 double nearest to the integer x (ties to even): the result
\* of a JavaScript + or * whose exact value is x.
RoundDouble(x) ==
    CHOOSE out \in
        {LET k == BigBitLen(a) - 53
         IN  IF k <= 0 THEN a
             ELSE LET ulp  == Pow2(k)
                      r    == a[1] % ulp
                      down == [a EXCEPT ![1] = a[1] - r]
                      up   == BigAdd(down, BigFromInt(ulp))
                      odd  == (a[1] \div ulp) % 2 = 1
                  IN  IF r * 2 > ulp \/ (r * 2 = ulp /\ odd) THEN up ELSE down :
            a \in {x}} : TRUE

\* x & 0x7fffffff
Low31(x) ==
    CHOOSE out \in {a[1] + LimbBase * a[2] + (LimbBase * LimbBase) * (a[3] % 2) :
                       a \in {x}} : TRUE

\* x | 0, kept as the unsigned 32-bit pattern
Trunc32(x) == CHOOSE out \in {<<a[1], a[2], a[3] % 4, 0, 0>> : a \in {x}} : TRUE

\* Math.abs of the signed reading of a 32-bit pattern
Abs32(x) ==
    CHOOSE out \in
        {IF (u[3] \div 2) % 2 = 1
         THEN Trunc32(BigAdd(<<LimbBase - 1 - u[1], LimbBase - 1 - u[2],
                               3 - u[3], 0, 0>>,
                             BigFromInt(1)))
         ELSE u :
            u \in {x}} : TRUE

(***************************************************************************)
(* SeededRandom                                                            *)
(***************************************************************************)
RECURSIVE HashLoop(_, _)
HashLoop(str, hash) ==
    CHOOSE out \in
        {IF s = <<>> THEN h
         ELSE HashLoop(Tail(s),
                       Trunc32(BigAdd(BigMulSmall(h, 31), BigFromInt(Head(s))))) :
            s \in {str}, h \in {hash}} : TRUE

\* str is the sequence of the string's char codes
hashString(str) == Abs32(HashLoop(str, BigFromInt(0)))

LcgMultiplier == 1103515245
LcgIncrement == 12345
LcgDivisor == 2147483647

\* variant: the mask lets through the divisor itself
nextSeedAllOnes(seed) == BigFromInt(LcgDivisor)

\* the generator state after one call of next()
nextSeed(seed) ==
    CHOOSE out \in
        {BigFromInt(m) :
            m \in {Low31(RoundDouble(BigAdd(
                      RoundDouble(BigMul(seed, BigFromInt(LcgMultiplier))),
                      BigFromInt(LcgIncrement))))}} : TRUE

\* Math.floor((s / 0x7fffffff) * n) for an integer state 0 <= s <= 0x7fffffff
\* and a small n: the divisor is prime, so the quotient is an integer only
\* for s = 0 and s = 0x7fffffff and the double rounding never crosses one.
RECURSIVE FloorScaled(_, _, _, _)
FloorScaled(s, n, quot, rem) ==
    CHOOSE out \in
        {IF n = 0 THEN q
         ELSE IF r >= LcgDivisor - s
              THEN FloorScaled(s, n - 1, q + 1, r - (LcgDivisor - s))
              ELSE FloorScaled(s, n - 1, q, r + s) :
            q \in {quot}, r \in {rem}} : TRUE

\* result[i] <-> result[j] (1-based); j = Len + 1 reads past the end
Swap(result, i, j, undef) ==
    IF j > Len(result)
    THEN Append([result EXCEPT ![i] = undef], result[i])
    ELSE [result EXCEPT ![i] = result[j], ![j] = result[i]]

\* for (let i = result.length - 1; i > 0; i--): i is the 0-based index
RECURSIVE ShuffleLoop(_, _, _, _)
ShuffleLoop(result, i, seed, undef) ==
    IF i <= 0 THEN [arr |-> result, seed |-> seed]
    ELSE CHOOSE out \in
             {CHOOSE swapped \in
                  {ShuffleLoop(Swap(result, i + 1, j + 1, undef), i - 1, s, undef) :
                      j \in {FloorScaled(Low31(s), i + 1, 0, 0)}} : TRUE :
                 s \in {nextSeed(seed)}} : TRUE

shuffle(arr, seed, undef) ==
    CHOOSE out \in {ShuffleLoop(a, Len(a) - 1, s, undef) :
                       a \in {arr}, s \in {seed}} : TRUE

\* the swaps of a shuffle of i + 1 elements: the 0-based indices i and j of
\* each, in the order of the loop
RECURSIVE SwapIndices(_, _)
SwapIndices(i, seed) ==
    IF i <= 0 THEN <<>>
    ELSE CHOOSE out \in
             {<<[i |-> i, j |-> FloorScaled(Low31(s), i + 1, 0, 0)]>>
                  \o SwapIndices(i - 1, s) :
                 s \in {nextSeed(seed)}} : TRUE

\* the shuffles of the four choice arrays, drawn one after the other from
\* the same generator
RECURSIVE ShuffleEach(_, _)
ShuffleEach(arrs, seed) ==
    IF arrs = <<>> THEN <<>>
    ELSE CHOOSE out \in
             {<<sh.arr>> \o ShuffleEach(Tail(arrs), sh.seed) :
                 sh \in {shuffle(Head(arrs), seed, "undefined")}} : TRUE

Fill(n, v) == [i \in 1..n |-> v]

(***************************************************************************)
(* generateBalancedDefaults.  state1Probability is the fraction            *)
(* pNum / pDen; Math.round(x) is floor(x + 1/2).                           *)
(***************************************************************************)
\* variant: Math.floor in the place of Math.round
MathFloor(num, den) == num \div den

MathRound(num, den) == (2 * num + den) \div (2 * den)

\* variant: every default of a bucket is B
ChoicesAllB(aCount, bCount) == Fill(aCount + bCount, "B")

\* [...Array(aCount).fill('A'), ...Array(bCount).fill('B')]
Choices(aCount, bCount) == Fill(aCount, "A") \o Fill(bCount, "B")

\* the zip loop: idx1 and idx2 count the entries already taken (0-based)
RECURSIVE ZipLoop(_, _, _, _, _, _, _, _, _)
ZipLoop(i, numRounds, shuffledStates, s1, s2, r1, r2, idx1, idx2) ==
    IF i >= numRounds THEN <<>>
    ELSE LET at(arr, idx) == IF idx + 1 \in DOMAIN arr THEN arr[idx + 1]
                             ELSE "undefined"
         IN  IF i + 1 \in DOMAIN shuffledStates /\ shuffledStates[i + 1] = 1
             THEN <<[round |-> i + 1, trueState |-> 1,
                     senderDefault |-> at(s1, idx1),
                     receiverDefault |-> at(r1, idx1)]>>
                  \o ZipLoop(i + 1, numRounds, shuffledStates, s1, s2, r1, r2,
                             idx1 + 1, idx2)
             ELSE <<[round |-> i + 1, trueState |-> 2,
                     senderDefault |-> at(s2, idx2),
                     receiverDefault |-> at(r2, idx2)]>>
                  \o ZipLoop(i + 1, numRounds, shuffledStates, s1, s2, r1, r2,
                             idx1, idx2 + 1)

\* the seed field of the generator after the shuffles of ShuffleEach
RECURSIVE ShuffleEachSeed(_, _)
ShuffleEachSeed(arrs, seed) ==
    IF arrs = <<>> THEN seed
    ELSE CHOOSE out \in
             {ShuffleEachSeed(Tail(arrs), sh.seed) :
                 sh \in {shuffle(Head(arrs), seed, "undefined")}} : TRUE

\* variant: one generator object is kept between the calls
NewSeededRandomShared(seed, last) ==
    IF last = <<>> THEN hashString(seed) ELSE last

\* new SeededRandom(seed) for a string: the seed field of the new object.
\* last is the seed field of the object of the previous call (<<>> before
\* the first), which the constructor cannot see.
NewSeededRandom(seed, last) == hashString(seed)

\* the body of generateBalancedDefaults from a generator whose seed field is
\* rng: the array it returns and the seed field it leaves
generateWith(numRounds, pNum, pDen, rng) ==
    LET numState1 == MathRound(numRounds * pNum, pDen)
        numState2 == numRounds - numState1
        state1ACount == numState1 \div 2
        state1BCount == numState1 - state1ACount
        state2ACount == numState2 \div 2
        state2BCount == numState2 - state2ACount
        choices1 == Choices(state1ACount, state1BCount)
        choices2 == Choices(state2ACount, state2BCount)
        four == <<choices1, choices2, choices1, choices2>>
    IN  CHOOSE out \in
            {CHOOSE zipped \in
                 {[results |-> ZipLoop(0, numRounds, states.arr,
                                       ch[1], ch[2], ch[3], ch[4], 0, 0),
                   seed |-> ShuffleEachSeed(four, states.seed)] :
                     ch \in {ShuffleEach(four, states.seed)}} : TRUE :
                states \in {shuffle(Fill(numState1, 1) \o Fill(numState2, 2),
                                    rng, 0)}} : TRUE

generateBalancedDefaults(numRounds, pNum, pDen, seed) ==
    generateWith(numRounds, pNum, pDen, NewSeededRandom(seed, <<>>)).results

(***************************************************************************)
(* The model of one game instance.                                         *)
(*                                                                         *)
(* publicData  the SenderReceiverStagePublicData document of the stage     *)
(* config      the SenderReceiverStageConfig of the stage (never written)  *)
(* response    how the last call of the endpoint ended: "success" for      *)
(*             {success: true}, or the code of the HttpsError it threw     *)
(* generator   the calls of the balanced default generator on their own:   *)
(*             the arguments, the seed field the last SeededRandom was     *)
(*             left with, the arrays generateBalancedDefaults returned and *)
(*             the last value getRoundDefault returned (<<>> for none)     *)
(* payoffs     the payoff computations made on their own: the arguments    *)
(*             and the result of each                                      *)
(* rng         one SeededRandom object on its own: its seed field and the  *)
(*             calls of next() and shuffle() made on it, with their        *)
(*             results                                                     *)
(* timer       one CountdownTimer on its own: its intervalId (0 for null)  *)
(*             and remaining fields, the intervals of the window that are  *)
(*             still set, and what its callbacks have done so far          *)
(*                                                                         *)
(* null is the string "null" (the empty sequence for a payoff, FALSE for   *)
(* a timestamp); a field the object does not have is "undefined" (FALSE    *)
(* for a ready flag, which the code only tests for truth).                 *)
(***************************************************************************)
VARIABLES publicData, config, response, generator, payoffs, rng, timer

vars == <<publicData, config, response, generator, payoffs, rng, timer>>

\* no CountdownTimer: the other specifications leave it so
NoTimer == [intervalId |-> 0, remaining |-> 0, intervals |-> {}, starts |-> 0,
            completes |-> 0, stopped |-> FALSE, firedAfterStop |-> FALSE,
            last |-> "none"]

\* no SeededRandom object: the other specifications leave it so
NoRng == [seed |-> <<>>, calls |-> <<>>]

\* the generator before any call; the endpoint's specification leaves it so
NoGenerator == [args |-> "none", seed |-> <<>>, results |-> <<>>,
                roundDefault |-> <<>>]

NULL == "null"
UNDEFINED == "undefined"

\* !x for an id, a choice or a message
Falsy(x) == x \in {NULL, UNDEFINED, ""}

\* x || null
OrNull(x) == IF Falsy(x) THEN NULL ELSE x

NumRounds == 2

UserIds == {"a", "b", "c"}
StageId == "s"

\* str.charCodeAt for the ids of the model
CharCodes == [a |-> <<97>>, b |-> <<98>>, c |-> <<99>>, s |-> <<115>>]

\* `${senderId}-${receiverId}-${stageId}`
pairSeed(senderId, receiverId, stageId) ==
    CharCodes[senderId] \o <<45>> \o CharCodes[receiverId] \o <<45>>
        \o CharCodes[stageId]

\* the arguments of the generator's own specification
MaxGenRounds == 5
MaxCalls == 2

\* state1Probability as a fraction
Probabilities == {<<0, 1>>, <<1, 4>>, <<1, 2>>, <<3, 4>>, <<1, 1>>}

\* the seed strings: the pair seeds of the participants and the empty string
Seeds == {pairSeed(s, r, StageId) : s \in UserIds, r \in UserIds} \cup {<<>>}

\* generateBalancedDefaults is a function of its arguments alone; its values
\* for the argument tuples of the model are computed once and looked up.
GeneratorArgs ==
    {<<n, 1, 2, pairSeed(sid, rid, StageId)>> :
        n \in 1..NumRounds, sid \in UserIds, rid \in UserIds}
      \cup {<<n, p[1], p[2], s>> :
               n \in 0..MaxGenRounds, p \in Probabilities, s \in Seeds}

GeneratedDefaults ==
    [args \in GeneratorArgs |->
        generateBalancedDefaults(args[1], args[2], args[3], args[4])]

\* variant: allDefaults[0] whatever the round
getRoundDefaultFirst(roundNumber, numRounds, pNum, pDen, participantPairSeed) ==
    generateBalancedDefaults(numRounds, pNum, pDen, participantPairSeed)[1]

getRoundDefault(roundNumber, numRounds, pNum, pDen, participantPairSeed) ==
    LET args == <<numRounds, pNum, pDen, participantPairSeed>>
    IN  IF args \in GeneratorArgs
        THEN GeneratedDefaults[args][roundNumber]
        ELSE generateBalancedDefaults(numRounds, pNum, pDen,
                                      participantPairSeed)[roundNumber]

\* createSenderReceiverStage: the default parameters and payoff table;
\* state1Probability 0.5 is the fraction <<1, 2>>
createSenderReceiverStage(numRounds, requireParticipantClick, enableBalancedDefaults) ==
    [numRounds |-> numRounds,
     state1Probability |-> <<1, 2>>,
     enableBalancedDefaults |-> enableBalancedDefaults,
     requireParticipantClick |-> requireParticipantClick,
     payoffSenderChoiceA |-> 30,
     payoffSenderChoiceB1 |-> 0,
     payoffSenderChoiceB2 |-> 20,
     payoffReceiverChoiceA |-> 20,
     payoffReceiverChoiceB1 |-> 36,
     payoffReceiverChoiceB2 |-> 4]

createSenderReceiverStagePublicData ==
    [senderId |-> NULL, receiverId |-> NULL, currentRound |-> 1,
     roundMap |-> <<>>]

RoundFields ==
    {"roundNumber", "trueState", "status",
     "senderChoice", "senderMessage", "receiverChoice",
     "senderPayoff", "receiverPayoff",
     "defaultSenderChoice", "defaultReceiverChoice",
     "senderTimedOut", "receiverTimedOut",
     "senderReadyStart", "receiverReadyStart",
     "senderReadyNext", "receiverReadyNext",
     "startTime", "senderUnlockedTime", "senderSubmittedTime",
     "receiverSawMessageTime", "receiverUnlockedTime", "receiverSubmittedTime"}

(***************************************************************************)
(* transaction.update(publicDataRef, updates): updates maps field paths to *)
(* values.  Path(0, f) is the top-level field f, Path(n, f) is             *)
(* `roundMap.n.f` and Path(n, "*") is `roundMap.n`.                        *)
(***************************************************************************)
Path(n, f) == [round |-> n, field |-> f]

NoUpdates == <<>>

ApplyUpdates(d, updates) ==
    LET has(n, f) == Path(n, f) \in DOMAIN updates
        top(f) == IF has(0, f) THEN updates[Path(0, f)] ELSE d[f]
        keys == DOMAIN d.roundMap
                  \cup {p.round : p \in {q \in DOMAIN updates : q.field = "*"}}
        base(n) == IF has(n, "*") THEN updates[Path(n, "*")] ELSE d.roundMap[n]
    IN  IF DOMAIN updates = {} THEN d
        ELSE
        [senderId |-> top("senderId"),
         receiverId |-> top("receiverId"),
         currentRound |-> top("currentRound"),
         roundMap |-> [n \in keys |->
                         [f \in RoundFields |->
                             IF has(n, f) THEN updates[Path(n, f)]
                             ELSE base(n)[f]]]]

Success(updates) == [error |-> "success", updates |-> updates]

\* variant: a call that throws has cleared senderId first
HttpsErrorAfterWrite(code) ==
    [error |-> code, updates |-> Path(0, "senderId") :> NULL]

\* throw new HttpsError(code): every throw comes before the first
\* transaction.update of its handler, and the transaction commits nothing
HttpsError(code) == [error |-> code, updates |-> NoUpdates]

(***************************************************************************)
(* sender_receiver.utils.ts                                                *)
(***************************************************************************)
\* The object has senderLabel and defaultSenderLabel where the round type
\* has senderChoice and defaultSenderChoice, and no readyNext flags.
createNewRound(roundNumber, cfg, seed, isFirstRound) ==
    [roundNumber |-> roundNumber,
     trueState |-> getRoundDefault(roundNumber, cfg.numRounds,
                                   cfg.state1Probability[1],
                                   cfg.state1Probability[2], seed).trueState,
     status |-> IF isFirstRound THEN "WAITING_BOTH_START"
                ELSE "WAITING_SENDER_DECIDE",
     senderChoice |-> UNDEFINED,
     senderMessage |-> NULL,
     receiverChoice |-> NULL,
     senderPayoff |-> <<>>,
     receiverPayoff |-> <<>>,
     defaultSenderChoice |-> UNDEFINED,
     defaultReceiverChoice |-> NULL,
     senderTimedOut |-> FALSE,
     receiverTimedOut |-> FALSE,
     senderReadyStart |-> FALSE,
     receiverReadyStart |-> FALSE,
     senderReadyNext |-> FALSE,
     receiverReadyNext |-> FALSE,
     startTime |-> ~isFirstRound,
     senderUnlockedTime |-> ~isFirstRound,
     senderSubmittedTime |-> FALSE,
     receiverSawMessageTime |-> FALSE,
     receiverUnlockedTime |-> FALSE,
     receiverSubmittedTime |-> FALSE]

\* variant: choice B pays the B1 pair in both states
calculatePayoffsIgnoringState(choice, trueState, cfg) ==
    IF choice = "A"
    THEN [senderPayoff |-> cfg.payoffSenderChoiceA,
          receiverPayoff |-> cfg.payoffReceiverChoiceA]
    ELSE [senderPayoff |-> cfg.payoffSenderChoiceB1,
          receiverPayoff |-> cfg.payoffReceiverChoiceB1]

calculatePayoffs(choice, trueState, cfg) ==
    IF choice = "A"
    THEN [senderPayoff |-> cfg.payoffSenderChoiceA,
          receiverPayoff |-> cfg.payoffReceiverChoiceA]
    ELSE IF trueState = 1
    THEN [senderPayoff |-> cfg.payoffSenderChoiceB1,
          receiverPayoff |-> cfg.payoffReceiverChoiceB1]
    ELSE [senderPayoff |-> cfg.payoffSenderChoiceB2,
          receiverPayoff |-> cfg.payoffReceiverChoiceB2]

\* variant: round 1 is created as a later round is, already started
startGameIfReadyStarted(d, cfg, stageId) ==
    IF Falsy(d.senderId) \/ Falsy(d.receiverId) THEN NoUpdates
    ELSE IF 1 \in DOMAIN d.roundMap THEN NoUpdates
    ELSE (Path(1, "*") :> createNewRound(1, cfg,
                              pairSeed(d.senderId, d.receiverId, stageId), FALSE))
         @@ (Path(0, "currentRound") :> 1)

\* variant: round 1 is not created when the roles are filled
startGameIfReadyNever(d, cfg, stageId) == NoUpdates

\* returns the update object, NoUpdates for null
startGameIfReady(d, cfg, stageId) ==
    IF Falsy(d.senderId) \/ Falsy(d.receiverId) THEN NoUpdates
    ELSE IF 1 \in DOMAIN d.roundMap THEN NoUpdates
    ELSE (Path(1, "*") :> createNewRound(1, cfg,
                              pairSeed(d.senderId, d.receiverId, stageId), TRUE))
         @@ (Path(0, "currentRound") :> 1)

(***************************************************************************)
(* submitSenderReceiverAction: the body of the transaction.  Each handler  *)
(* returns how the call ends and the updates the transaction commits; a    *)
(* transaction that throws commits nothing.                                *)
(***************************************************************************)
\* snapshot.forEach(...): the role the caller holds in the last document of
\* the cohort's publicStageData that is another sender-receiver stage
RECURSIVE HistoryLoop(_, _, _, _)
HistoryLoop(snapshot, stageId, userId, historicalRole) ==
    IF snapshot = <<>> THEN historicalRole
    ELSE LET doc == Head(snapshot)
             r1 == IF doc.senderId = userId THEN "sender" ELSE historicalRole
             r2 == IF doc.receiverId = userId THEN "receiver" ELSE r1
         IN  HistoryLoop(Tail(snapshot), stageId, userId,
                         IF doc.id = stageId THEN historicalRole
                         ELSE IF doc.kind = "senderReceiver" THEN r2
                         ELSE historicalRole)

\* variant: a participant is never taken to hold a role already
HoldsRoleNever(d, userId) == FALSE

\* variant: only the Sender is taken to hold a role already
HoldsRoleAsSender(d, userId) == d.senderId = userId

\* the idempotency test of assign_role
HoldsRole(d, userId) == d.senderId = userId \/ d.receiverId = userId

\* variant: a requested role that is taken falls back as no request does
FallsBackAlways(assigned, reqRole) == ~assigned

\* first-come-first-served runs only for a call with no requestedRole
FallsBack(assigned, reqRole) == ~assigned /\ Falsy(reqRole)

\* variant: first-come-first-served fills the Receiver first
FcfsReceiverFirst(d, userId) ==
    IF Falsy(d.receiverId) THEN Path(0, "receiverId") :> userId
    ELSE IF Falsy(d.senderId) THEN Path(0, "senderId") :> userId
    ELSE NoUpdates

\* variant: first-come-first-served takes the Receiver's place when the
\* roles are full
FcfsTakesOver(d, userId) ==
    IF Falsy(d.senderId) THEN Path(0, "senderId") :> userId
    ELSE Path(0, "receiverId") :> userId

\* the field first-come-first-served writes: none when the roles are full
Fcfs(d, userId) ==
    IF Falsy(d.senderId) THEN Path(0, "senderId") :> userId
    ELSE IF Falsy(d.receiverId) THEN Path(0, "receiverId") :> userId
    ELSE NoUpdates

AssignRoleHandler(d, cfg, stageId, userId, payload, snapshot) ==
    IF HoldsRole(d, userId) THEN Success(NoUpdates)
    ELSE
    LET reqRole == payload.requestedRole
        bySender == reqRole = "sender" /\ Falsy(d.senderId)
        byReceiver == ~bySender /\ reqRole = "receiver" /\ Falsy(d.receiverId)
        assigned1 == bySender \/ byReceiver
        updates1 == IF bySender THEN Path(0, "senderId") :> userId
                    ELSE IF byReceiver THEN Path(0, "receiverId") :> userId
                    ELSE NoUpdates
        checkHistory == ~assigned1 /\ Falsy(reqRole)
        historicalRole == HistoryLoop(snapshot, stageId, userId, NULL)
        histSender == checkHistory /\ historicalRole = "sender"
                        /\ Falsy(d.senderId)
        histReceiver == checkHistory /\ ~histSender
                          /\ historicalRole = "receiver" /\ Falsy(d.receiverId)
        assigned2 == assigned1 \/ histSender \/ histReceiver
        updates2 == IF histSender THEN Path(0, "senderId") :> userId
                    ELSE IF histReceiver THEN Path(0, "receiverId") :> userId
                    ELSE updates1
        fallback == FallsBack(assigned2, reqRole)
        rolesFull == fallback /\ Fcfs(d, userId) = NoUpdates
        unavailable == ~fallback /\ ~assigned2 /\ ~Falsy(reqRole)
        updates3 == IF fallback THEN Fcfs(d, userId) ELSE updates2
        simulatedData == ApplyUpdates(d, updates3)
        startUpdates == startGameIfReady(simulatedData, cfg, stageId)
    IN  IF rolesFull \/ unavailable THEN HttpsError("failed-precondition")
        ELSE Success(startUpdates @@ updates3)

\* variant: start_game does not look at the round's status
StartGameHandlerAnyStatus(d, userId) ==
    LET roundIndex == d.currentRound
        roundData == d.roundMap[roundIndex]
        isSender == d.senderId = userId
        isReceiver == d.receiverId = userId
        own == IF isSender
               THEN Path(roundIndex, "senderReadyStart") :> TRUE
               ELSE IF isReceiver
               THEN Path(roundIndex, "receiverReadyStart") :> TRUE
               ELSE NoUpdates
        shouldStart == IF isSender THEN roundData.receiverReadyStart
                       ELSE IF isReceiver THEN roundData.senderReadyStart
                       ELSE FALSE
        start == (Path(roundIndex, "status") :> "WAITING_SENDER_DECIDE")
                 @@ (Path(roundIndex, "startTime") :> TRUE)
                 @@ (Path(roundIndex, "senderUnlockedTime") :> TRUE)
    IN  Success(IF shouldStart THEN own @@ start ELSE own)

\* variant: start_game starts the round without waiting for the partner
shouldStartAlone(roundData, isSender, isReceiver) == isSender \/ isReceiver

\* the barrier of start_game: the partner's flag is already set
shouldStart(roundData, isSender, isReceiver) ==
    IF isSender THEN roundData.receiverReadyStart
    ELSE IF isReceiver THEN roundData.senderReadyStart
    ELSE FALSE

StartGameHandler(d, userId) ==
    LET roundIndex == d.currentRound
        roundData == d.roundMap[roundIndex]
        isSender == d.senderId = userId
        isReceiver == d.receiverId = userId
        own == IF isSender
               THEN Path(roundIndex, "senderReadyStart") :> TRUE
               ELSE IF isReceiver
               THEN Path(roundIndex, "receiverReadyStart") :> TRUE
               ELSE NoUpdates
        start == (Path(roundIndex, "status") :> "WAITING_SENDER_DECIDE")
                 @@ (Path(roundIndex, "startTime") :> TRUE)
                 @@ (Path(roundIndex, "senderUnlockedTime") :> TRUE)
    IN  IF roundData.status # "WAITING_BOTH_START" THEN Success(NoUpdates)
        ELSE Success(IF shouldStart(roundData, isSender, isReceiver)
                     THEN own @@ start ELSE own)

\* variant: sender_signal is accepted in any status
SenderSignalChecksAnyStatus(roundData, isSender) ==
    IF ~isSender THEN "permission-denied" ELSE "ok"

\* the preconditions of the sender_signal handler: the code of the error it throws
SenderSignalChecks(roundData, isSender) ==
    IF ~isSender THEN "permission-denied"
    ELSE IF roundData.status # "WAITING_SENDER_DECIDE" THEN "failed-precondition"
    ELSE "ok"

\* variant: the timed-out submission pre-sets the sender's payoff alone
SenderPayoffPresetSenderOnly(cfg, payload, roundIndex) ==
    IF cfg.requireParticipantClick /\ payload.isTimedOut = "true"
    THEN Path(roundIndex, "senderPayoff") :> <<0>>
    ELSE NoUpdates

\* variant: the defaults are computed whatever enableBalancedDefaults is
BackendDefaultsAlways(d, cfg, stageId, roundIndex) ==
    getRoundDefault(roundIndex, cfg.numRounds,
                    cfg.state1Probability[1], cfg.state1Probability[2],
                    pairSeed(d.senderId, d.receiverId, stageId))

\* the defaults sender_signal and receiver_choice compute on the backend:
\* the generator's entry of the round when enableBalancedDefaults is set,
\* null otherwise
BackendDefaults(d, cfg, stageId, roundIndex) ==
    IF cfg.enableBalancedDefaults
    THEN getRoundDefault(roundIndex, cfg.numRounds,
                         cfg.state1Probability[1], cfg.state1Probability[2],
                         pairSeed(d.senderId, d.receiverId, stageId))
    ELSE [senderDefault |-> NULL, receiverDefault |-> NULL]

\* the payoffs sender_signal writes: both 0 for a timed-out submission when
\* requireParticipantClick is set, none otherwise
SenderPayoffPreset(cfg, payload, roundIndex) ==
    IF cfg.requireParticipantClick /\ payload.isTimedOut = "true"
    THEN (Path(roundIndex, "senderPayoff") :> <<0>>)
         @@ (Path(roundIndex, "receiverPayoff") :> <<0>>)
    ELSE NoUpdates

SenderSignalHandler(d, cfg, stageId, userId, payload) ==
    LET roundIndex == d.currentRound
        roundData == d.roundMap[roundIndex]
        isSender == d.senderId = userId
        check == SenderSignalChecks(roundData, isSender)
        defaultSenderChoice ==
            BackendDefaults(d, cfg, stageId, roundIndex).senderDefault
        updateData ==
            (Path(roundIndex, "senderChoice") :> OrNull(payload.senderChoice))
            @@ (Path(roundIndex, "senderMessage") :> OrNull(payload.senderMessage))
            @@ (Path(roundIndex, "senderSubmittedTime") :> TRUE)
            @@ (Path(roundIndex, "senderTimedOut") :> (payload.isTimedOut = "true"))
            @@ (Path(roundIndex, "defaultSenderChoice") :> defaultSenderChoice)
            @@ SenderPayoffPreset(cfg, payload, roundIndex)
            @@ (Path(roundIndex, "status") :> "WAITING_RECEIVER_DECIDE")
            @@ (Path(roundIndex, "receiverUnlockedTime") :> TRUE)
    IN  IF check # "ok" THEN HttpsError(check) ELSE Success(updateData)

\* variant: the mark is written to round 1 whatever the current round
ReceiverSawMessageHandlerRoundOne(d, userId) ==
    LET roundIndex == d.currentRound
        roundData == d.roundMap[roundIndex]
        isReceiver == d.receiverId = userId
    IN  IF ~isReceiver THEN Success(NoUpdates)
        ELSE IF roundData.status # "WAITING_RECEIVER_DECIDE" THEN Success(NoUpdates)
        ELSE IF roundData.receiverSawMessageTime THEN Success(NoUpdates)
        ELSE Success(Path(1, "receiverSawMessageTime") :> TRUE)

ReceiverSawMessageHandler(d, userId) ==
    LET roundIndex == d.currentRound
        roundData == d.roundMap[roundIndex]
        isReceiver == d.receiverId = userId
    IN  IF ~isReceiver THEN Success(NoUpdates)
        ELSE IF roundData.status # "WAITING_RECEIVER_DECIDE" THEN Success(NoUpdates)
        ELSE IF roundData.receiverSawMessageTime THEN Success(NoUpdates)
        ELSE Success(Path(roundIndex, "receiverSawMessageTime") :> TRUE)

\* variant: choice B pays the B1 pair whatever the state
PayoffLogicIgnoringState(roundData, cfg, choice) ==
    IF roundData.senderChoice = NULL
    THEN [senderPayoff |-> 0, receiverPayoff |-> 0]
    ELSE IF choice = "A"
    THEN [senderPayoff |-> cfg.payoffSenderChoiceA,
          receiverPayoff |-> cfg.payoffReceiverChoiceA]
    ELSE [senderPayoff |-> cfg.payoffSenderChoiceB1,
          receiverPayoff |-> cfg.payoffReceiverChoiceB1]

\* the payoff logic inlined in the receiver_choice handler
PayoffLogic(roundData, cfg, choice) ==
    LET state == roundData.trueState
    IN  IF roundData.senderChoice = NULL
        THEN [senderPayoff |-> 0, receiverPayoff |-> 0]
        ELSE IF choice = "A"
        THEN [senderPayoff |-> cfg.payoffSenderChoiceA,
              receiverPayoff |-> cfg.payoffReceiverChoiceA]
        ELSE IF state = 1
        THEN [senderPayoff |-> cfg.payoffSenderChoiceB1,
              receiverPayoff |-> cfg.payoffReceiverChoiceB1]
        ELSE [senderPayoff |-> cfg.payoffSenderChoiceB2,
              receiverPayoff |-> cfg.payoffReceiverChoiceB2]

\* variant: receiver_choice is accepted in any status
ReceiverChoiceChecksAnyStatus(roundData, isReceiver, payload) ==
    IF ~isReceiver THEN "permission-denied"
    ELSE IF Falsy(payload.receiverChoice) THEN "invalid-argument"
    ELSE "ok"

\* variant: receiver_choice does not look for the choice
ReceiverChoiceChecksAnyChoice(roundData, isReceiver, payload) ==
    IF ~isReceiver THEN "permission-denied"
    ELSE IF roundData.status # "WAITING_RECEIVER_DECIDE" THEN "failed-precondition"
    ELSE "ok"

\* the preconditions of the receiver_choice handler: the code of the error it throws
ReceiverChoiceChecks(roundData, isReceiver, payload) ==
    IF ~isReceiver THEN "permission-denied"
    ELSE IF roundData.status # "WAITING_RECEIVER_DECIDE" THEN "failed-precondition"
    ELSE IF Falsy(payload.receiverChoice) THEN "invalid-argument"
    ELSE "ok"

ReceiverChoiceHandler(d, cfg, stageId, userId, payload) ==
    LET roundIndex == d.currentRound
        roundData == d.roundMap[roundIndex]
        isReceiver == d.receiverId = userId
        check == ReceiverChoiceChecks(roundData, isReceiver, payload)
        choice == payload.receiverChoice
        payoff == PayoffLogic(roundData, cfg, choice)
        defaultReceiverChoice ==
            BackendDefaults(d, cfg, stageId, roundIndex).receiverDefault
        updateData ==
            (Path(roundIndex, "receiverChoice") :> choice)
            @@ (Path(roundIndex, "receiverSubmittedTime") :> TRUE)
            @@ (Path(roundIndex, "receiverTimedOut") :> (payload.isTimedOut = "true"))
            @@ (Path(roundIndex, "defaultReceiverChoice") :> defaultReceiverChoice)
            @@ (Path(roundIndex, "senderPayoff") :> <<payoff.senderPayoff>>)
            @@ (Path(roundIndex, "receiverPayoff") :> <<payoff.receiverPayoff>>)
            @@ (Path(roundIndex, "status") :> "SHOW_FEEDBACK")
    IN  IF check # "ok" THEN HttpsError(check) ELSE Success(updateData)

\* the RoundState the next_round handler builds inline
NextRoundData(d, cfg, stageId, nextRoundIndex) ==
    [roundNumber |-> nextRoundIndex,
     trueState |-> getRoundDefault(nextRoundIndex, cfg.numRounds,
                                   cfg.state1Probability[1], cfg.state1Probability[2],
                                   pairSeed(d.senderId, d.receiverId, stageId)).trueState,
     status |-> "WAITING_SENDER_DECIDE",
     senderChoice |-> NULL,
     senderMessage |-> NULL,
     receiverChoice |-> NULL,
     senderPayoff |-> <<>>,
     receiverPayoff |-> <<>>,
     defaultSenderChoice |-> NULL,
     defaultReceiverChoice |-> NULL,
     senderTimedOut |-> FALSE,
     receiverTimedOut |-> FALSE,
     senderReadyStart |-> FALSE,
     receiverReadyStart |-> FALSE,
     senderReadyNext |-> FALSE,
     receiverReadyNext |-> FALSE,
     startTime |-> TRUE,
     senderUnlockedTime |-> TRUE,
     senderSubmittedTime |-> FALSE,
     receiverSawMessageTime |-> FALSE,
     receiverUnlockedTime |-> FALSE,
     receiverSubmittedTime |-> FALSE]

\* variant: next_round advances without waiting for the partner
shouldAdvanceAlone(roundData, isSender, isReceiver) == isSender \/ isReceiver

\* the barrier of next_round: the partner's flag is already set
shouldAdvance(roundData, isSender, isReceiver) ==
    IF isSender THEN roundData.receiverReadyNext
    ELSE IF isReceiver THEN roundData.senderReadyNext
    ELSE FALSE

\* variant: next_round is accepted in any status
InFeedbackAlways(roundData) == TRUE

\* the precondition of next_round
InFeedback(roundData) == roundData.status = "SHOW_FEEDBACK"

\* variant: leaving the last round does not move currentRound
EndOfGameUnmarked(nextRoundIndex) == NoUpdates

\* the write that ends the game: currentRound goes past numRounds
EndOfGame(nextRoundIndex) == Path(0, "currentRound") :> nextRoundIndex

NextRoundHandler(d, cfg, stageId, userId) ==
    LET roundIndex == d.currentRound
        roundData == d.roundMap[roundIndex]
        isSender == d.senderId = userId
        isReceiver == d.receiverId = userId
        own == IF isSender
               THEN Path(roundIndex, "senderReadyNext") :> TRUE
               ELSE IF isReceiver
               THEN Path(roundIndex, "receiverReadyNext") :> TRUE
               ELSE NoUpdates
        nextRoundIndex == roundIndex + 1
    IN  IF ~InFeedback(roundData) THEN Success(NoUpdates)
        ELSE IF ~shouldAdvance(roundData, isSender, isReceiver) THEN Success(own)
        ELSE IF nextRoundIndex > cfg.numRounds
        THEN Success(EndOfGame(nextRoundIndex) @@ own)
        ELSE IF nextRoundIndex \in DOMAIN d.roundMap THEN Success(own)
        ELSE Success((Path(0, "currentRound") :> nextRoundIndex)
                     @@ (Path(nextRoundIndex, "*")
                           :> NextRoundData(d, cfg, stageId, nextRoundIndex))
                     @@ own)

\* the endpoint: authentication, then the transaction
submitSenderReceiverAction(d, cfg, stageId, userId, action, payload, snapshot) ==
    LET isSender == d.senderId = userId
        isReceiver == d.receiverId = userId
    IN  IF Falsy(userId) THEN HttpsError("unauthenticated")
        ELSE IF action = "assign_role"
        THEN AssignRoleHandler(d, cfg, stageId, userId, payload, snapshot)
        ELSE IF ~isSender /\ ~isReceiver THEN HttpsError("permission-denied")
        ELSE IF d.currentRound \notin DOMAIN d.roundMap
        THEN HttpsError("failed-precondition")
        ELSE IF action = "start_game" THEN StartGameHandler(d, userId)
        ELSE IF action = "sender_signal"
        THEN SenderSignalHandler(d, cfg, stageId, userId, payload)
        ELSE IF action = "receiver_saw_message"
        THEN ReceiverSawMessageHandler(d, userId)
        ELSE IF action = "receiver_choice"
        THEN ReceiverChoiceHandler(d, cfg, stageId, userId, payload)
        ELSE IF action = "next_round"
        THEN NextRoundHandler(d, cfg, stageId, userId)
        ELSE Success(NoUpdates)

(***************************************************************************)
(* The calls the model issues.                                             *)
(***************************************************************************)
SenderPayloads ==
    {[senderChoice |-> "A", senderMessage |-> "hi", isTimedOut |-> "false"],
     [senderChoice |-> "B", senderMessage |-> UNDEFINED, isTimedOut |-> "true"],
     [senderChoice |-> "B", senderMessage |-> "", isTimedOut |-> "false"],
     [senderChoice |-> NULL, senderMessage |-> "", isTimedOut |-> "true"],
     [senderChoice |-> UNDEFINED, senderMessage |-> "hi", isTimedOut |-> UNDEFINED]}

ReceiverPayloads ==
    {[receiverChoice |-> "A", isTimedOut |-> "false"],
     [receiverChoice |-> "B", isTimedOut |-> "true"],
     [receiverChoice |-> UNDEFINED, isTimedOut |-> UNDEFINED]}

\* The documents of the cohort's publicStageData collection that
\* assign_role reads: other sender-receiver stages where a and b have
\* played, a stage of another kind, and the document of this stage.
\* startTime stands for the time the instance was played (the startTime of
\* its rounds); the handler does not read it.
StageT == [id |-> "t", kind |-> "senderReceiver", senderId |-> "a", receiverId |-> "b",
           startTime |-> 1]
StageU == [id |-> "u", kind |-> "senderReceiver", senderId |-> "b", receiverId |-> "a",
           startTime |-> 2]
StageQ == [id |-> "q", kind |-> "senderReceiver", senderId |-> "b", receiverId |-> "a",
           startTime |-> 3]
StageV == [id |-> "v", kind |-> "chat", senderId |-> "c", receiverId |-> "c",
           startTime |-> 0]
StageS == [id |-> StageId, kind |-> "senderReceiver", senderId |-> "c", receiverId |-> NULL,
           startTime |-> 0]

\* collection.get() with no orderBy returns the documents in the order of
\* their ids, and a stage's id is given or generated (config.id ??
\* generateId()): the last document is the most recent one in the second
\* snapshot and the oldest one in the third.
Snapshots == {<<>>, <<StageT, StageU>>, <<StageQ, StageT>>, <<StageS, StageV>>}

NoPayload == [requestedRole |-> UNDEFINED]

\* the outcome of one call of the endpoint on the current document
Call(userId, action, payload, snapshot) ==
    submitSenderReceiverAction(publicData, config, StageId, userId, action,
                               payload, snapshot)

AssignRole(userId, requestedRole, snapshot) ==
    \E r \in {Call(userId, "assign_role", [requestedRole |-> requestedRole], snapshot)} :
        /\ publicData' = ApplyUpdates(publicData, r.updates)
        /\ response' = r.error
        /\ UNCHANGED <<config, generator, payoffs, rng, timer>>

StartGame(userId) ==
    \E r \in {Call(userId, "start_game", NoPayload, <<>>)} :
        /\ publicData' = ApplyUpdates(publicData, r.updates)
        /\ response' = r.error
        /\ UNCHANGED <<config, generator, payoffs, rng, timer>>

SenderSignal(userId, payload) ==
    \E r \in {Call(userId, "sender_signal", payload, <<>>)} :
        /\ publicData' = ApplyUpdates(publicData, r.updates)
        /\ response' = r.error
        /\ UNCHANGED <<config, generator, payoffs, rng, timer>>

ReceiverSawMessage(userId) ==
    \E r \in {Call(userId, "receiver_saw_message", NoPayload, <<>>)} :
        /\ publicData' = ApplyUpdates(publicData, r.updates)
        /\ response' = r.error
        /\ UNCHANGED <<config, generator, payoffs, rng, timer>>

ReceiverChoice(userId, payload) ==
    \E r \in {Call(userId, "receiver_choice", payload, <<>>)} :
        /\ publicData' = ApplyUpdates(publicData, r.updates)
        /\ response' = r.error
        /\ UNCHANGED <<config, generator, payoffs, rng, timer>>

NextRound(userId) ==
    \E r \in {Call(userId, "next_round", NoPayload, <<>>)} :
        /\ publicData' = ApplyUpdates(publicData, r.updates)
        /\ response' = r.error
        /\ UNCHANGED <<config, generator, payoffs, rng, timer>>

Actions == {"assign_role", "start_game", "sender_signal",
            "receiver_saw_message", "receiver_choice", "next_round"}

\* request.auth?.uid is undefined
Unauthenticated(action) ==
    \E r \in {Call(UNDEFINED, action, NoPayload, <<>>)} :
        /\ publicData' = ApplyUpdates(publicData, r.updates)
        /\ response' = r.error
        /\ UNCHANGED <<config, generator, payoffs, rng, timer>>

Init ==
    /\ publicData = createSenderReceiverStagePublicData
    \* requireParticipantClick and enableBalancedDefaults act on different
    \* fields; the two configs set both or neither
    /\ config \in {createSenderReceiverStage(NumRounds, flag, flag) : flag \in BOOLEAN}
    /\ response = "none"
    /\ generator = NoGenerator
    /\ payoffs = {}
    /\ rng = NoRng
    /\ timer = NoTimer

\* The history query runs only for a call with no requestedRole; a call
\* without userId is refused before its action is looked at.
Next ==
    \/ \E u \in UserIds, r \in {"sender", "receiver"} : AssignRole(u, r, <<>>)
    \/ \E u \in UserIds, h \in Snapshots : AssignRole(u, UNDEFINED, h)
    \/ \E u \in UserIds : StartGame(u)
    \/ \E u \in UserIds, p \in SenderPayloads : SenderSignal(u, p)
    \/ \E u \in UserIds : ReceiverSawMessage(u)
    \/ \E u \in UserIds, p \in ReceiverPayloads : ReceiverChoice(u, p)
    \/ \E u \in UserIds : NextRound(u)
    \/ \E a \in Actions : Unauthenticated(a)

Spec == Init /\ [][Next]_vars

(***************************************************************************)
(* The endpoint with two players who go on playing: each of them           *)
(* eventually makes the call its role may make in the current status       *)
(* (start_game, sender_signal, receiver_choice with a choice, next_round). *)
(* Nothing is assumed of assign_role, of receiver_saw_message or of calls  *)
(* that fail.                                                              *)
(***************************************************************************)
Players == {"a", "b"}

PlayerSenderPayloads == {p \in SenderPayloads : p.senderMessage = "hi"}

ChoicePayloads == {p \in ReceiverPayloads : ~Falsy(p.receiverChoice)}

FairNext ==
    \/ \E u \in Players, r \in {"sender", "receiver", UNDEFINED} :
          AssignRole(u, r, <<>>)
    \/ \E u \in Players : StartGame(u)
    \/ \E u \in Players, p \in PlayerSenderPayloads : SenderSignal(u, p)
    \/ \E u \in Players : ReceiverSawMessage(u)
    \/ \E u \in Players, p \in ReceiverPayloads : ReceiverChoice(u, p)
    \/ \E u \in Players : NextRound(u)

Fairness ==
    \A u \in Players :
        /\ WF_vars(StartGame(u))
        /\ WF_vars(\E p \in PlayerSenderPayloads : SenderSignal(u, p))
        /\ WF_vars(\E p \in ChoicePayloads : ReceiverChoice(u, p))
        /\ WF_vars(NextRound(u))

FairSpec == Init /\ [][FairNext]_vars /\ Fairness

(***************************************************************************)
(* The balanced default generator on its own: the arguments are drawn in   *)
(* the initial state, Generate calls generateBalancedDefaults on them and  *)
(* GetRoundDefault calls getRoundDefault.                                  *)
(***************************************************************************)
GenInit ==
    /\ publicData = createSenderReceiverStagePublicData
    /\ config = createSenderReceiverStage(NumRounds, TRUE, TRUE)
    /\ response = "none"
    /\ generator \in
          {[NoGenerator EXCEPT !.args = [numRounds |-> n, p |-> p, seed |-> s]] :
              n \in 0..MaxGenRounds, p \in Probabilities, s \in Seeds}
    /\ payoffs = {}
    /\ rng = NoRng
    /\ timer = NoTimer

\* generateBalancedDefaults(numRounds, state1Probability, seed)
Generate ==
    /\ Len(generator.results) < MaxCalls
    /\ \E run \in {generateWith(generator.args.numRounds,
                                 generator.args.p[1], generator.args.p[2],
                                 NewSeededRandom(generator.args.seed,
                                                 generator.seed))} :
          generator' = [generator EXCEPT !.seed = run.seed,
                                         !.results = Append(@, run.results)]
    /\ UNCHANGED <<publicData, config, response, payoffs, rng, timer>>

\* getRoundDefault(roundNumber, numRounds, state1Probability, seed)
GetRoundDefault(roundNumber) ==
    /\ roundNumber <= generator.args.numRounds
    /\ generator' =
          [generator EXCEPT !.roundDefault =
              <<[roundNumber |-> roundNumber,
                 value |-> getRoundDefault(roundNumber, generator.args.numRounds,
                                           generator.args.p[1], generator.args.p[2],
                                           generator.args.seed)]>>]
    /\ UNCHANGED <<publicData, config, response, payoffs, rng, timer>>

GenNext ==
    \/ Generate
    \/ \E n \in 1..MaxGenRounds : GetRoundDefault(n)

GenSpec == GenInit /\ [][GenNext]_vars

(***************************************************************************)
(* Properties.  What a call returns and writes is its Outcome: the actions *)
(* commit exactly that, so a property of the calls is stated on the        *)
(* Outcome of every call in every reachable state.                         *)
(***************************************************************************)
roundIndex == publicData.currentRound
HasRound(n) == n \in DOMAIN publicData.roundMap
Round(n) == publicData.roundMap[n]

\* the outcome of a call on a document d (with an empty history), and the
\* document after it
Outcome(d, userId, action, payload) ==
    submitSenderReceiverAction(d, config, StageId, userId, action, payload, <<>>)
After(d, userId, action, payload) ==
    ApplyUpdates(d, Outcome(d, userId, action, payload).updates)

\* C1: two distinct participants who call assign_role with no requestedRole
\* and no history while both roles are free end, in either order, as the
\* Sender and the Receiver; the second call creates roundMap[1] in
\* WAITING_BOTH_START with currentRound = 1, and no repeated call of either
\* creates it again.
C1_PairingCreatesRoundOnce ==
    (Falsy(publicData.senderId) /\ Falsy(publicData.receiverId)) =>
        \A u, v \in UserIds : u # v =>
            LET r1 == Outcome(publicData, u, "assign_role", NoPayload)
                d1 == ApplyUpdates(publicData, r1.updates)
                r2 == Outcome(d1, v, "assign_role", NoPayload)
                d2 == ApplyUpdates(d1, r2.updates)
            IN  /\ r1.error = "success" /\ r2.error = "success"
                /\ {d2.senderId, d2.receiverId} = {u, v}
                /\ DOMAIN d1.roundMap = {}
                /\ Path(1, "*") \notin DOMAIN r1.updates
                /\ Path(1, "*") \in DOMAIN r2.updates
                /\ DOMAIN d2.roundMap = {1}
                /\ d2.roundMap[1].status = "WAITING_BOTH_START"
                /\ d2.currentRound = 1
                /\ \A w \in {u, v} :
                      Outcome(d2, w, "assign_role", NoPayload) = Success(NoUpdates)

C1_Witness ==
    \E u, v \in UserIds :
        /\ u # v
        /\ publicData = After(After(createSenderReceiverStagePublicData,
                                    u, "assign_role", NoPayload),
                              v, "assign_role", NoPayload)
        /\ publicData.senderId = u /\ publicData.receiverId = v
        /\ response = "success"

\* C2: from SHOW_FEEDBACK the instance advances exactly once when both
\* players have called next_round.  The two readyNext flags of the current
\* round are never both set; a call that finds the partner's flag unset only
\* sets the caller's flag (a repeated call changes nothing more); the call
\* that finds it set adds 1 to currentRound and creates at most the one
\* RoundState of the next round, which starts outside SHOW_FEEDBACK with
\* both flags unset; and outside SHOW_FEEDBACK next_round changes nothing.
C2_NextRoundAdvancesOnce ==
    \A userId \in {publicData.senderId, publicData.receiverId} \ {NULL} :
        LET n == roundIndex
            isSender == userId = publicData.senderId
            own == IF isSender THEN "senderReadyNext" ELSE "receiverReadyNext"
            other == IF isSender THEN "receiverReadyNext" ELSE "senderReadyNext"
            d1 == After(publicData, userId, "next_round", NoPayload)
        IN  IF HasRound(n) /\ Round(n).status = "SHOW_FEEDBACK"
            THEN /\ ~(Round(n).senderReadyNext /\ Round(n).receiverReadyNext)
                 /\ IF Round(n)[other]
                    THEN /\ d1.currentRound = n + 1
                         /\ DOMAIN d1.roundMap =
                                DOMAIN publicData.roundMap
                                  \cup ({n + 1} \cap (1..config.numRounds))
                         /\ \A m \in DOMAIN publicData.roundMap :
                               d1.roundMap[m] =
                                   IF m = n THEN [Round(n) EXCEPT ![own] = TRUE]
                                   ELSE Round(m)
                         /\ n + 1 \in DOMAIN d1.roundMap =>
                               /\ d1.roundMap[n + 1].status = "WAITING_SENDER_DECIDE"
                               /\ ~d1.roundMap[n + 1].senderReadyNext
                               /\ ~d1.roundMap[n + 1].receiverReadyNext
                    ELSE d1 = [publicData EXCEPT !.roundMap[n][own] = TRUE]
            ELSE d1 = publicData

C2_Witness ==
    /\ roundIndex = 2
    /\ HasRound(2)
    /\ Round(1).status = "SHOW_FEEDBACK"
    /\ Round(1).senderReadyNext /\ Round(1).receiverReadyNext
    /\ Round(2).status = "WAITING_SENDER_DECIDE"
    /\ response = "success"

\* C3: a next_round call of either player that arrives after the
\* advancement (currentRound > 1, and the current round absent or not in
\* SHOW_FEEDBACK) returns success and writes nothing, also when the
\* advancement left the last round.
C3_LateNextRoundSucceeds ==
    (roundIndex > 1 /\ (HasRound(roundIndex) => Round(roundIndex).status # "SHOW_FEEDBACK"))
        => \A userId \in {publicData.senderId, publicData.receiverId} :
              Outcome(publicData, userId, "next_round", NoPayload) = Success(NoUpdates)

\* C4: of two sender_signal calls of the Sender for a round exactly one
\* commits.  In WAITING_SENDER_DECIDE the call succeeds, commits its
\* senderChoice and senderMessage and leaves that status, so that any further
\* sender_signal fails with failed-precondition and writes nothing; in any
\* other status the call fails so.  The same holds for receiver_choice (with
\* a choice in its payload) and WAITING_RECEIVER_DECIDE.
C4_SecondSubmissionFails ==
    HasRound(roundIndex) =>
        LET n == roundIndex
            senderId == publicData.senderId
            receiverId == publicData.receiverId
            choices == {p \in ReceiverPayloads : ~Falsy(p.receiverChoice)}
        IN  /\ \A p \in SenderPayloads :
                  LET o1 == Outcome(publicData, senderId, "sender_signal", p)
                      d1 == ApplyUpdates(publicData, o1.updates)
                  IN  IF Round(n).status = "WAITING_SENDER_DECIDE"
                      THEN /\ o1.error = "success"
                           /\ d1.roundMap[n].senderChoice = OrNull(p.senderChoice)
                           /\ d1.roundMap[n].senderMessage = OrNull(p.senderMessage)
                           /\ d1.roundMap[n].status # "WAITING_SENDER_DECIDE"
                           /\ \A q \in SenderPayloads :
                                 Outcome(d1, senderId, "sender_signal", q)
                                     = HttpsError("failed-precondition")
                      ELSE o1 = HttpsError("failed-precondition")
            /\ \A p \in choices :
                  LET o1 == Outcome(publicData, receiverId, "receiver_choice", p)
                      d1 == ApplyUpdates(publicData, o1.updates)
                  IN  IF Round(n).status = "WAITING_RECEIVER_DECIDE"
                      THEN /\ o1.error = "success"
                           /\ d1.roundMap[n].receiverChoice = p.receiverChoice
                           /\ d1.roundMap[n].status # "WAITING_RECEIVER_DECIDE"
                           /\ \A q \in choices :
                                 Outcome(d1, receiverId, "receiver_choice", q)
                                     = HttpsError("failed-precondition")
                      ELSE o1 = HttpsError("failed-precondition")

\* a second sender_signal has just failed on a round that keeps the first
\* one's choice
C4_Witness ==
    /\ HasRound(roundIndex)
    /\ Round(roundIndex).status = "WAITING_RECEIVER_DECIDE"
    /\ Round(roundIndex).senderChoice = "A"
    /\ Round(roundIndex).senderMessage = "hi"
    /\ response = "failed-precondition"

\* C5: once a round is in SHOW_FEEDBACK no step changes its senderChoice,
\* receiverChoice, senderPayoff or receiverPayoff.
C5_FeedbackFrozen ==
    [][\A n \in DOMAIN publicData.roundMap :
          publicData.roundMap[n].status = "SHOW_FEEDBACK" =>
              /\ n \in DOMAIN publicData'.roundMap
              /\ \A f \in {"senderChoice", "receiverChoice",
                           "senderPayoff", "receiverPayoff"} :
                    publicData'.roundMap[n][f] = publicData.roundMap[n][f]]_vars

\* round 1 is in SHOW_FEEDBACK and a whole second round has been played
C5_Witness ==
    /\ HasRound(2)
    /\ Round(1).status = "SHOW_FEEDBACK"
    /\ Round(2).status = "SHOW_FEEDBACK"
    /\ Round(1).senderChoice = "A" /\ Round(1).receiverChoice = "A"
    /\ Round(2).senderChoice = "B" /\ Round(2).receiverChoice = "B"

\* the position of a status in the order of the round state machine
StatusRank ==
    [WAITING_BOTH_START |-> 1, WAITING_SENDER_DECIDE |-> 2,
     WAITING_RECEIVER_DECIDE |-> 3, SHOW_FEEDBACK |-> 4]

\* C6: in every step the status of every round stays the same or moves to
\* its immediate successor in WAITING_BOTH_START < WAITING_SENDER_DECIDE <
\* WAITING_RECEIVER_DECIDE < SHOW_FEEDBACK.
C6_StatusStepsForward ==
    [][\A n \in DOMAIN publicData.roundMap :
          /\ n \in DOMAIN publicData'.roundMap
          /\ StatusRank[publicData'.roundMap[n].status]
                 - StatusRank[publicData.roundMap[n].status] \in {0, 1}]_vars

\* round 1 has gone through all four statuses and round 2 is on its way
C6_Witness ==
    /\ HasRound(2)
    /\ Round(1).status = "SHOW_FEEDBACK"
    /\ Round(1).senderReadyStart /\ Round(1).receiverReadyStart
    /\ Round(2).status = "WAITING_RECEIVER_DECIDE"

\* C7: the payoffs of a round are written once: after they are a number no
\* step changes senderPayoff or receiverPayoff.
C7_PayoffsWrittenOnce ==
    [][\A n \in DOMAIN publicData.roundMap :
          \A f \in {"senderPayoff", "receiverPayoff"} :
              publicData.roundMap[n][f] # <<>> =>
                  /\ n \in DOMAIN publicData'.roundMap
                  /\ publicData'.roundMap[n][f] = publicData.roundMap[n][f]]_vars

\* the calls of the properties below: an action with a payload
Calls ==
    {<<"sender_signal", p>> : p \in SenderPayloads}
      \cup {<<"receiver_choice", p>> : p \in ReceiverPayloads}
      \cup {<<"assign_role", [requestedRole |-> r]>> :
               r \in {"sender", "receiver", UNDEFINED}}
      \cup {<<a, NoPayload>> :
               a \in {"start_game", "receiver_saw_message", "next_round"}}

\* C8: senderPayoff and receiverPayoff of a round are both null or both
\* non-null in every reachable state, and every call writes both or neither.
C8_PayoffsTogether ==
    /\ \A n \in DOMAIN publicData.roundMap :
          (Round(n).senderPayoff = <<>>) <=> (Round(n).receiverPayoff = <<>>)
    /\ \A userId \in UserIds, c \in Calls :
          LET updates == Outcome(publicData, userId, c[1], c[2]).updates
          IN  \A n \in 1..(NumRounds + 1) :
                  (Path(n, "senderPayoff") \in DOMAIN updates)
                      <=> (Path(n, "receiverPayoff") \in DOMAIN updates)

\* a timed-out sender_signal has pre-set both payoffs
C8_Witness ==
    /\ HasRound(roundIndex)
    /\ Round(roundIndex).status = "WAITING_RECEIVER_DECIDE"
    /\ Round(roundIndex).senderPayoff = <<0>>
    /\ Round(roundIndex).receiverPayoff = <<0>>

\* C9: a round whose sender_signal was accepted with isTimedOut = true under
\* requireParticipantClick has both payoffs 0 in SHOW_FEEDBACK.
C9_TimedOutSenderPaysZero ==
    \A n \in DOMAIN publicData.roundMap :
        (/\ config.requireParticipantClick
         /\ Round(n).senderTimedOut
         /\ Round(n).status = "SHOW_FEEDBACK")
            => Round(n).senderPayoff = <<0>> /\ Round(n).receiverPayoff = <<0>>

\* C10: a round in SHOW_FEEDBACK whose sender_signal carried a senderChoice
\* and was not timed out has the payoffs of the table entry of its
\* receiverChoice and trueState.
C10_PayoffsFromTable ==
    \A n \in DOMAIN publicData.roundMap :
        (/\ Round(n).status = "SHOW_FEEDBACK"
         /\ Round(n).senderChoice \in {"A", "B"}
         /\ ~Round(n).senderTimedOut)
            => \/ /\ Round(n).receiverChoice = "A"
                  /\ Round(n).senderPayoff = <<config.payoffSenderChoiceA>>
                  /\ Round(n).receiverPayoff = <<config.payoffReceiverChoiceA>>
               \/ /\ Round(n).receiverChoice = "B"
                  /\ Round(n).trueState = 1
                  /\ Round(n).senderPayoff = <<config.payoffSenderChoiceB1>>
                  /\ Round(n).receiverPayoff = <<config.payoffReceiverChoiceB1>>
               \/ /\ Round(n).receiverChoice = "B"
                  /\ Round(n).trueState = 2
                  /\ Round(n).senderPayoff = <<config.payoffSenderChoiceB2>>
                  /\ Round(n).receiverPayoff = <<config.payoffReceiverChoiceB2>>

\* both states have been played with choice B after senders' own choices
C10_Witness ==
    /\ HasRound(2)
    /\ \A n \in {1, 2} :
          /\ Round(n).status = "SHOW_FEEDBACK"
          /\ Round(n).senderChoice \in {"A", "B"}
          /\ ~Round(n).senderTimedOut
          /\ Round(n).receiverChoice = "B"
    /\ Round(1).senderChoice # Round(2).senderChoice
    /\ Round(1).trueState # Round(2).trueState
    /\ \E n \in {1, 2} : Round(n).senderPayoff = <<20>> /\ Round(n).receiverPayoff = <<4>>
    /\ \E n \in {1, 2} : Round(n).senderPayoff = <<0>> /\ Round(n).receiverPayoff = <<36>>

\* the payoff table entry of a choice and a state
TableEntry(cfg, choice, state) ==
    IF choice = "A"
    THEN <<cfg.payoffSenderChoiceA, cfg.payoffReceiverChoiceA>>
    ELSE IF state = 1
    THEN <<cfg.payoffSenderChoiceB1, cfg.payoffReceiverChoiceB1>>
    ELSE <<cfg.payoffSenderChoiceB2, cfg.payoffReceiverChoiceB2>>

\* C11: a null senderChoice makes both payoffs 0 only when
\* requireParticipantClick is set: without it, a round in SHOW_FEEDBACK
\* whose committed senderChoice is null has the payoffs of the table entry
\* of its receiverChoice and trueState.
C11_NullSenderPaysTableWithoutPolicy ==
    \A n \in DOMAIN publicData.roundMap :
        (/\ ~config.requireParticipantClick
         /\ Round(n).status = "SHOW_FEEDBACK"
         /\ Round(n).senderChoice = NULL)
            => <<Round(n).senderPayoff, Round(n).receiverPayoff>>
                  = LET e == TableEntry(config, Round(n).receiverChoice,
                                        Round(n).trueState)
                    IN  <<<<e[1]>>, <<e[2]>>>>

\* C12: senderId and receiverId are never the same non-null participant,
\* and no step changes a senderId or a receiverId that is non-null.
C12_RolesDistinctAndKept ==
    /\ [](publicData.senderId # NULL => publicData.senderId # publicData.receiverId)
    /\ [][/\ publicData.senderId # NULL
                => publicData'.senderId = publicData.senderId
          /\ publicData.receiverId # NULL
                => publicData'.receiverId = publicData.receiverId]_vars

\* both roles are held, and a call that asks for a role has just been refused
C12_Witness ==
    /\ publicData.senderId = "b"
    /\ publicData.receiverId = "a"
    /\ HasRound(2)
    /\ response = "failed-precondition"
    /\ Round(2).status = "WAITING_SENDER_DECIDE"

ErrorCodes == {"unauthenticated", "not-found", "permission-denied",
               "failed-precondition", "invalid-argument"}

C14_RoundsContiguous ==
    LET keys == DOMAIN publicData.roundMap
        last == IF roundIndex < config.numRounds THEN roundIndex
                ELSE config.numRounds
    IN  /\ keys = 1..Cardinality(keys)
        /\ keys \subseteq 1..last
        /\ \A n \in keys :
              (n + 1) \in keys => Round(n).status = "SHOW_FEEDBACK"

\* the last round has been left: both rounds exist and currentRound is past
\* them
C14_Witness ==
    /\ DOMAIN publicData.roundMap = 1..NumRounds
    /\ roundIndex = NumRounds + 1
    /\ \A n \in 1..NumRounds : Round(n).status = "SHOW_FEEDBACK"

\* the step sets the second readyNext flag of the current round, which is in
\* SHOW_FEEDBACK: a next_round call has found the partner's flag set
SecondReadyNext ==
    /\ HasRound(roundIndex)
    /\ Round(roundIndex).status = "SHOW_FEEDBACK"
    /\ Round(roundIndex).senderReadyNext # Round(roundIndex).receiverReadyNext
    /\ publicData'.roundMap[roundIndex].senderReadyNext
    /\ publicData'.roundMap[roundIndex].receiverReadyNext

\* C15: currentRound starts at 1 and stays within 1..numRounds + 1; a step
\* changes it only by +1 and only when a next_round call finds both
\* readyNext flags satisfied, and every such call changes it; leaving the
\* last round makes it numRounds + 1 and creates no round, and no round with
\* an index above numRounds ever exists.
C15_CurrentRoundCounts ==
    /\ publicData.currentRound = 1
    /\ [](/\ publicData.currentRound \in 1..(config.numRounds + 1)
          /\ DOMAIN publicData.roundMap \subseteq 1..config.numRounds)
    /\ [][/\ publicData'.currentRound # publicData.currentRound
                => /\ publicData'.currentRound = publicData.currentRound + 1
                   /\ SecondReadyNext
                   /\ response' = "success"
          /\ SecondReadyNext
                => /\ publicData'.currentRound = publicData.currentRound + 1
                   /\ publicData.currentRound = config.numRounds
                         => /\ publicData'.currentRound = config.numRounds + 1
                            /\ DOMAIN publicData'.roundMap
                                  = DOMAIN publicData.roundMap]_vars

\* the second next_round of the last round has just moved currentRound past
\* numRounds
C15_Witness ==
    /\ roundIndex = config.numRounds + 1
    /\ DOMAIN publicData.roundMap = 1..config.numRounds
    /\ Round(config.numRounds).senderReadyNext
    /\ Round(config.numRounds).receiverReadyNext
    /\ response = "success"

RequestedRoles == {"sender", "receiver", UNDEFINED}

\* C16: assign_role by a participant who holds a role returns success and
\* writes nothing, whatever requestedRole it carries (the role held, the
\* other role free or taken, or none) and whatever the history.
C16_HolderAssignIsNoOp ==
    \A userId \in {publicData.senderId, publicData.receiverId} \ {NULL} :
        \A r \in RequestedRoles, h \in Snapshots :
            Call(userId, "assign_role", [requestedRole |-> r], h)
                = Success(NoUpdates)

\* the Receiver holds the only role taken (the Sender's slot is free) and an
\* assign_role has just returned
C16_Witness ==
    /\ publicData.senderId = NULL
    /\ publicData.receiverId = "b"
    /\ response = "success"

\* the id in the slot of a role
Slot(d, role) == IF role = "sender" THEN d.senderId ELSE d.receiverId

\* C17: assign_role with a requestedRole whose slot another participant
\* holds fails with failed-precondition and writes nothing, also when the
\* other role is free and when the caller's history names it.
C17_TakenRequestFails ==
    \A userId \in UserIds \ {publicData.senderId, publicData.receiverId} :
        \A r \in {"sender", "receiver"}, h \in Snapshots :
            ~Falsy(Slot(publicData, r)) =>
                Call(userId, "assign_role", [requestedRole |-> r], h)
                    = HttpsError("failed-precondition")

\* the Receiver's slot is taken, the Sender's is free, and a call has just
\* been refused
C17_Witness ==
    /\ publicData.senderId = NULL
    /\ publicData.receiverId = "c"
    /\ response = "failed-precondition"

\* the documents of a snapshot where the participant held a role in another
\* sender-receiver stage, and the role held in the most recent of them
Played(snapshot, userId) ==
    {i \in DOMAIN snapshot :
        /\ snapshot[i].id # StageId
        /\ snapshot[i].kind = "senderReceiver"
        /\ userId \in {snapshot[i].senderId, snapshot[i].receiverId}}

MostRecentRole(snapshot, userId) ==
    LET i == CHOOSE i \in Played(snapshot, userId) :
                 \A j \in Played(snapshot, userId) :
                     snapshot[j].startTime <= snapshot[i].startTime
    IN  IF snapshot[i].senderId = userId THEN "sender" ELSE "receiver"

\* C18: assign_role with no requestedRole by a participant who held roles
\* in other instances of the stage kind assigns the role held in the most
\* recent of them when that slot is free (also when first-come-first-served
\* would give the other role), and acts as first-come-first-served does
\* when it is taken.
C18_MostRecentRoleWins ==
    \A userId \in UserIds \ {publicData.senderId, publicData.receiverId} :
        \A h \in {s \in Snapshots : Played(s, userId) # {}} :
            LET role == MostRecentRole(h, userId)
                o == Call(userId, "assign_role", NoPayload, h)
            IN  IF Falsy(Slot(publicData, role))
                THEN /\ o.error = "success"
                     /\ Slot(ApplyUpdates(publicData, o.updates), role) = userId
                ELSE o = Call(userId, "assign_role", NoPayload, <<>>)

\* the history gives the caller no role: the loop finds none, or the slot of
\* the one it finds is taken
NoUsableHistory(snapshot, userId) ==
    LET historicalRole == HistoryLoop(snapshot, StageId, userId, NULL)
    IN  historicalRole = NULL \/ ~Falsy(Slot(publicData, historicalRole))

\* C19: assign_role with no requestedRole and no usable history by a
\* participant without a role takes senderId when it is free, otherwise
\* receiverId when it is free, and otherwise fails with failed-precondition
\* and writes nothing; the other role is left as it is.
C19_FirstComeFirstServed ==
    \A userId \in UserIds \ {publicData.senderId, publicData.receiverId} :
        \A h \in {s \in Snapshots : NoUsableHistory(s, userId)} :
            LET o == Call(userId, "assign_role", NoPayload, h)
                d1 == ApplyUpdates(publicData, o.updates)
            IN  IF Falsy(publicData.senderId)
                THEN /\ o.error = "success"
                     /\ d1.senderId = userId
                     /\ d1.receiverId = publicData.receiverId
                ELSE IF Falsy(publicData.receiverId)
                THEN /\ o.error = "success"
                     /\ d1.receiverId = userId
                     /\ d1.senderId = publicData.senderId
                ELSE o = HttpsError("failed-precondition")

\* both roles are held and a call has just been refused before either
\* player is ready to start
C19_Witness ==
    /\ publicData.senderId = "a"
    /\ publicData.receiverId = "b"
    /\ DOMAIN publicData.roundMap = {1}
    /\ Round(1).status = "WAITING_BOTH_START"
    /\ ~Round(1).senderReadyStart /\ ~Round(1).receiverReadyStart
    /\ response = "failed-precondition"

\* C20: roundMap[1] exists exactly when senderId and receiverId are both
\* non-null: the step that fills the second role creates it.
C20_RoundOneWithSecondRole ==
    HasRound(1) <=> (publicData.senderId # NULL /\ publicData.receiverId # NULL)

\* the Receiver's slot was filled first and the Sender's second, and round 1
\* has just been created
C20_Witness ==
    /\ publicData.senderId = "c"
    /\ publicData.receiverId = "b"
    /\ DOMAIN publicData.roundMap = {1}
    /\ Round(1).status = "WAITING_BOTH_START"
    /\ ~Round(1).senderReadyStart /\ ~Round(1).receiverReadyStart
    /\ response = "success"

\* C21: while round 1 is in WAITING_BOTH_START at most one readyStart flag
\* is set and the round has no startTime; a start_game of a player who
\* finds the partner's flag unset only sets the caller's flag (so a repeated
\* call of the same player starts nothing), the one that finds it set moves
\* the round to WAITING_SENDER_DECIDE and sets startTime and
\* senderUnlockedTime; and once the round has left WAITING_BOTH_START a
\* start_game returns success and writes nothing.
C21_StartGameStartsOnce ==
    HasRound(roundIndex) =>
        \A userId \in {publicData.senderId, publicData.receiverId} :
            LET n == roundIndex
                isSender == userId = publicData.senderId
                own == IF isSender THEN "senderReadyStart" ELSE "receiverReadyStart"
                other == IF isSender THEN "receiverReadyStart" ELSE "senderReadyStart"
                o == Outcome(publicData, userId, "start_game", NoPayload)
                d1 == ApplyUpdates(publicData, o.updates)
            IN  IF Round(n).status = "WAITING_BOTH_START"
                THEN /\ n = 1
                     /\ ~(Round(n).senderReadyStart /\ Round(n).receiverReadyStart)
                     /\ ~Round(n).startTime /\ ~Round(n).senderUnlockedTime
                     /\ o.error = "success"
                     /\ d1 = [publicData EXCEPT !.roundMap[n] =
                               IF Round(n)[other]
                               THEN [Round(n) EXCEPT
                                       ![own] = TRUE,
                                       !.status = "WAITING_SENDER_DECIDE",
                                       !.startTime = TRUE,
                                       !.senderUnlockedTime = TRUE]
                               ELSE [Round(n) EXCEPT ![own] = TRUE]]
                ELSE o = Success(NoUpdates)

\* the Receiver was ready first and the Sender's start_game has started
\* round 1
C21_Witness ==
    /\ roundIndex = 1 /\ HasRound(1)
    /\ Round(1).status = "WAITING_SENDER_DECIDE"
    /\ Round(1).senderReadyStart /\ Round(1).receiverReadyStart
    /\ Round(1).startTime /\ Round(1).senderUnlockedTime
    /\ response = "success"

\* C25: every existing round n has the trueState of entry n of
\* generateBalancedDefaults(numRounds, state1Probability,
\* senderId-receiverId-stageId), and in a completed instance the number k of
\* rounds with trueState = 1 is round(numRounds * p):
\* k <= numRounds * p + 1/2 < k + 1.
C25_RoundStatesFromGenerator ==
    /\ \A n \in DOMAIN publicData.roundMap :
          Round(n).trueState =
              GeneratedDefaults[<<config.numRounds,
                                  config.state1Probability[1],
                                  config.state1Probability[2],
                                  pairSeed(publicData.senderId,
                                           publicData.receiverId,
                                           StageId)>>][n].trueState
    /\ roundIndex = config.numRounds + 1 =>
          LET k == Cardinality({n \in DOMAIN publicData.roundMap :
                                   Round(n).trueState = 1})
              pNum == config.state1Probability[1]
              pDen == config.state1Probability[2]
          IN  /\ 2 * pDen * k <= 2 * config.numRounds * pNum + pDen
              /\ 2 * config.numRounds * pNum + pDen < 2 * pDen * (k + 1)
              /\ \A n \in 1..config.numRounds : Round(n).trueState \in {1, 2}

\* a completed instance whose round 1 (created at pairing) has state 2 and
\* whose round 2 (created by next_round) has state 1
C25_Witness ==
    /\ roundIndex = config.numRounds + 1
    /\ DOMAIN publicData.roundMap = 1..config.numRounds
    /\ Round(1).trueState = 2
    /\ Round(2).trueState = 1

\* what receiver_saw_message by userId would write to the document, and
\* whether it is the Receiver's first sight of the message in the round
SawMessageWrites(userId) ==
    Outcome(publicData, userId, "receiver_saw_message", NoPayload).updates
FirstSight(userId) ==
    /\ userId = publicData.receiverId
    /\ roundIndex \in DOMAIN publicData.roundMap
    /\ Round(roundIndex).status = "WAITING_RECEIVER_DECIDE"
    /\ ~Round(roundIndex).receiverSawMessageTime

\* receiver_saw_message writes at most receiverSawMessageTime of the current
\* round, and only at the Receiver's first sight
SawMessageFrame ==
    \A u \in UserIds :
        /\ DOMAIN SawMessageWrites(u)
              \subseteq {Path(roundIndex, "receiverSawMessageTime")}
        /\ SawMessageWrites(u) # NoUpdates => FirstSight(u)

\* C28: receiver_saw_message changes at most the field
\* receiverSawMessageTime of the current round and at most once per round
\* (only from null, only by the Receiver, only in WAITING_RECEIVER_DECIDE);
\* it never changes status, choices, payoffs or flags, and a call by the
\* Receiver or the Sender in any other situation returns success without
\* writing.
C28_SawMessageOnlyMarks ==
    /\ SawMessageFrame
    /\ \A u \in UserIds :
          (u \in {publicData.senderId, publicData.receiverId} /\ ~FirstSight(u))
              => Outcome(publicData, u, "receiver_saw_message", NoPayload)
                    = Success(NoUpdates)

\* receiver_choice payloads that carry no choice
NoChoicePayloads ==
    {[receiverChoice |-> c, isTimedOut |-> t] :
        c \in {UNDEFINED, NULL}, t \in {"true", "false", UNDEFINED}}

\* C29: receiver_choice by the Receiver in WAITING_RECEIVER_DECIDE with a
\* missing or null receiverChoice fails with invalid-argument and leaves the
\* round in WAITING_RECEIVER_DECIDE with receiverChoice and payoffs
\* unchanged; and every round in SHOW_FEEDBACK has receiverChoice in {A, B}.
C29_ChoiceRequired ==
    /\ (/\ roundIndex \in DOMAIN publicData.roundMap
        /\ Round(roundIndex).status = "WAITING_RECEIVER_DECIDE")
          => \A p \in NoChoicePayloads :
                /\ Outcome(publicData, publicData.receiverId, "receiver_choice", p)
                      = HttpsError("invalid-argument")
                /\ After(publicData, publicData.receiverId, "receiver_choice", p)
                      = publicData
    /\ \A n \in DOMAIN publicData.roundMap :
          Round(n).status = "SHOW_FEEDBACK" => Round(n).receiverChoice \in {"A", "B"}

\* in round 2 the Receiver's call without a choice has just been refused,
\* after a round 1 that was decided with a choice
C29_Witness ==
    /\ roundIndex = 2
    /\ HasRound(2)
    /\ Round(2).status = "WAITING_RECEIVER_DECIDE"
    /\ Round(2).receiverChoice = NULL
    /\ Round(2).senderPayoff = <<>>
    /\ response = "invalid-argument"
    /\ Round(1).status = "SHOW_FEEDBACK"
    /\ Round(1).receiverChoice = "B"

\* the payloads of an action
PayloadsOf(action) ==
    CASE action = "assign_role" -> {[requestedRole |-> r] : r \in RequestedRoles}
      [] action = "sender_signal" -> SenderPayloads
      [] action = "receiver_choice" -> ReceiverPayloads
      [] OTHER -> {NoPayload}

\* C30: every transition is a function of the document read in its
\* transaction, the action, its payload and the config: executed again on
\* the same document, a call writes the same updates and ends the same way,
\* whatever is read outside the transaction (the history query's snapshot).
C30_TransitionDeterministic ==
    \A u \in UserIds, a \in Actions :
        \A p \in PayloadsOf(a) :
            \A h1 \in Snapshots, h2 \in Snapshots :
                submitSenderReceiverAction(publicData, config, StageId, u, a, p, h1)
                    = submitSenderReceiverAction(publicData, config, StageId, u, a, p, h2)

\* C32: only round 1 can have status WAITING_BOTH_START: round 1 is
\* created in WAITING_BOTH_START with startTime and senderUnlockedTime null,
\* and every round n >= 2 is created in WAITING_SENDER_DECIDE with startTime
\* and senderUnlockedTime set and with senderChoice, receiverChoice and both
\* payoffs null.
C32_OnlyRoundOneWaitsForStart ==
    /\ [](\A n \in DOMAIN publicData.roundMap :
             Round(n).status = "WAITING_BOTH_START" => n = 1)
    /\ [][\A n \in DOMAIN publicData'.roundMap \ DOMAIN publicData.roundMap :
             LET created == publicData'.roundMap[n]
             IN  IF n = 1
                 THEN /\ created.status = "WAITING_BOTH_START"
                      /\ ~created.startTime
                      /\ ~created.senderUnlockedTime
                 ELSE /\ created.status = "WAITING_SENDER_DECIDE"
                      /\ created.startTime
                      /\ created.senderUnlockedTime
                      /\ created.senderChoice = NULL
                      /\ created.receiverChoice = NULL
                      /\ created.senderPayoff = <<>>
                      /\ created.receiverPayoff = <<>>]_vars

\* round 2 has just been created, after a round 1 that was started by both
C32_Witness ==
    /\ roundIndex = 2
    /\ HasRound(2)
    /\ Round(2).status = "WAITING_SENDER_DECIDE"
    /\ Round(2).startTime
    /\ Round(2).senderChoice = NULL
    /\ Round(1).status = "SHOW_FEEDBACK"
    /\ Round(1).startTime
    /\ response = "success"

\* the generator's entry for round n and the pair seed of the instance
GeneratorEntry(n) ==
    GeneratedDefaults[<<config.numRounds, config.state1Probability[1],
                        config.state1Probability[2],
                        pairSeed(publicData.senderId, publicData.receiverId,
                                 StageId)>>][n]

\* C33: defaultSenderChoice (written by sender_signal) and
\* defaultReceiverChoice (written by receiver_choice) never take a value
\* from the payload: when enableBalancedDefaults is true they are the
\* senderDefault / receiverDefault of the generator's entry for the round
\* and the pair seed, and when it is false they are null.
C33_DefaultsFromBackend ==
    /\ \A n \in DOMAIN publicData.roundMap :
          /\ Round(n).status \in {"WAITING_RECEIVER_DECIDE", "SHOW_FEEDBACK"} =>
                Round(n).defaultSenderChoice =
                    IF config.enableBalancedDefaults
                    THEN GeneratorEntry(n).senderDefault ELSE NULL
          /\ Round(n).status = "SHOW_FEEDBACK" =>
                Round(n).defaultReceiverChoice =
                    IF config.enableBalancedDefaults
                    THEN GeneratorEntry(n).receiverDefault ELSE NULL
    /\ HasRound(roundIndex) =>
          /\ \A p \in SenderPayloads :
                LET w == Outcome(publicData, publicData.senderId,
                                 "sender_signal", p).updates
                IN  Path(roundIndex, "defaultSenderChoice") \in DOMAIN w =>
                       w[Path(roundIndex, "defaultSenderChoice")] =
                           IF config.enableBalancedDefaults
                           THEN GeneratorEntry(roundIndex).senderDefault ELSE NULL
          /\ \A p \in ReceiverPayloads :
                LET w == Outcome(publicData, publicData.receiverId,
                                 "receiver_choice", p).updates
                IN  Path(roundIndex, "defaultReceiverChoice") \in DOMAIN w =>
                       w[Path(roundIndex, "defaultReceiverChoice")] =
                           IF config.enableBalancedDefaults
                           THEN GeneratorEntry(roundIndex).receiverDefault ELSE NULL

\* with balanced defaults, a round decided against both defaults
C33_Witness ==
    /\ config.enableBalancedDefaults
    /\ HasRound(1)
    /\ Round(1).status = "SHOW_FEEDBACK"
    /\ Round(1).defaultSenderChoice = "B"
    /\ Round(1).senderChoice = "A"
    /\ Round(1).defaultReceiverChoice = "B"
    /\ Round(1).receiverChoice = "A"

MaxRepeats == 3

\* the document after k calls of an action by userId, one after the other
RECURSIVE Repeated(_, _, _, _)
Repeated(d, userId, action, k) ==
    IF k = 0 THEN d
    ELSE Repeated(After(d, userId, action, NoPayload), userId, action, k - 1)

\* the partner of a player, and whether a flag of a role is set in the
\* current round
Partner(u) ==
    IF u = publicData.senderId THEN publicData.receiverId ELSE publicData.senderId
ReadyFlag(u, kind) ==
    IF u = publicData.senderId
    THEN Round(roundIndex)["senderReady" \o kind]
    ELSE Round(roundIndex)["receiverReady" \o kind]

\* C34: one player cannot pass a two-party barrier alone: while the partner
\* has not called start_game, any number of start_game calls by the player
\* leaves round 1 in WAITING_BOTH_START; while the partner has not called
\* next_round, any number of next_round calls by the player leaves
\* currentRound unchanged and creates no round; and the current round never
\* has both readyStart flags set while in WAITING_BOTH_START.
C34_NoBarrierPassedAlone ==
    HasRound(roundIndex) =>
        /\ \A u \in {publicData.senderId, publicData.receiverId}, k \in 1..MaxRepeats :
              /\ (/\ Round(roundIndex).status = "WAITING_BOTH_START"
                  /\ ~ReadyFlag(Partner(u), "Start"))
                    => LET d == Repeated(publicData, u, "start_game", k)
                       IN  /\ d.roundMap[1].status = "WAITING_BOTH_START"
                           /\ d.currentRound = 1
              /\ (/\ Round(roundIndex).status = "SHOW_FEEDBACK"
                  /\ ~ReadyFlag(Partner(u), "Next"))
                    => LET d == Repeated(publicData, u, "next_round", k)
                       IN  /\ d.currentRound = roundIndex
                           /\ DOMAIN d.roundMap = DOMAIN publicData.roundMap
                           /\ d.roundMap[roundIndex].status = "SHOW_FEEDBACK"
        /\ ~(/\ Round(roundIndex).status = "WAITING_BOTH_START"
             /\ Round(roundIndex).senderReadyStart
             /\ Round(roundIndex).receiverReadyStart)

\* the Receiver alone has called next_round in the last round: the round
\* is still the current one
C34_Witness ==
    /\ roundIndex = config.numRounds
    /\ HasRound(roundIndex)
    /\ Round(roundIndex).status = "SHOW_FEEDBACK"
    /\ Round(roundIndex).receiverReadyNext
    /\ ~Round(roundIndex).senderReadyNext
    /\ response = "success"

\* C35: the fields of a round agree with its status: in WAITING_BOTH_START
\* or WAITING_SENDER_DECIDE, senderSubmittedTime, receiverChoice and both
\* payoffs are null; in WAITING_RECEIVER_DECIDE or SHOW_FEEDBACK,
\* senderSubmittedTime and receiverUnlockedTime are set; in SHOW_FEEDBACK,
\* receiverChoice is A or B and both payoffs are non-null; readyNext flags
\* are set only on rounds in SHOW_FEEDBACK.
C35_FieldsAgreeWithStatus ==
    \A n \in DOMAIN publicData.roundMap :
        /\ Round(n).status \in {"WAITING_BOTH_START", "WAITING_SENDER_DECIDE"} =>
              /\ ~Round(n).senderSubmittedTime
              /\ Round(n).receiverChoice = NULL
              /\ Round(n).senderPayoff = <<>>
              /\ Round(n).receiverPayoff = <<>>
        /\ Round(n).status \in {"WAITING_RECEIVER_DECIDE", "SHOW_FEEDBACK"} =>
              /\ Round(n).senderSubmittedTime
              /\ Round(n).receiverUnlockedTime
        /\ Round(n).status = "SHOW_FEEDBACK" =>
              /\ Round(n).receiverChoice \in {"A", "B"}
              /\ Round(n).senderPayoff # <<>>
              /\ Round(n).receiverPayoff # <<>>
        /\ (Round(n).senderReadyNext \/ Round(n).receiverReadyNext) =>
              Round(n).status = "SHOW_FEEDBACK"

\* a round in each of three statuses has been seen: round 1 left in
\* SHOW_FEEDBACK with both readyNext flags, round 2 waiting for the
\* Receiver after a timed-out sender_signal that pre-set the payoffs
C35_Witness ==
    /\ roundIndex = 2
    /\ HasRound(2)
    /\ Round(1).status = "SHOW_FEEDBACK"
    /\ Round(1).senderReadyNext /\ Round(1).receiverReadyNext
    /\ Round(2).status = "WAITING_RECEIVER_DECIDE"
    /\ Round(2).senderSubmittedTime
    /\ Round(2).senderPayoff = <<0>>

RoundActions == Actions \ {"assign_role"}

\* the paths a round action may write: fields of the current round,
\* currentRound, and the whole of the next round
RoundActionPaths ==
    {Path(roundIndex, f) : f \in RoundFields}
        \cup {Path(0, "currentRound"), Path(roundIndex + 1, "*")}

\* C36: every action writes only roundMap[currentRound] (plus currentRound
\* and the newly created roundMap[currentRound + 1] on advancement): once
\* currentRound > n no step changes any field of roundMap[n], and
\* start_game, sender_signal, receiver_saw_message, receiver_choice and
\* next_round never write senderId or receiverId.
C36_OnlyCurrentRoundWritten ==
    /\ [](\A u \in UserIds, a \in RoundActions :
             \A p \in PayloadsOf(a) :
                 DOMAIN Outcome(publicData, u, a, p).updates
                     \subseteq RoundActionPaths)
    /\ [][\A n \in DOMAIN publicData.roundMap :
             n < roundIndex =>
                 /\ n \in DOMAIN publicData'.roundMap
                 /\ publicData'.roundMap[n] = publicData.roundMap[n]]_vars

\* round 2 has been played to its feedback while round 1 is as it was left
C36_Witness ==
    /\ roundIndex = 2
    /\ HasRound(2)
    /\ Round(2).status = "SHOW_FEEDBACK"
    /\ Round(2).receiverSawMessageTime
    /\ Round(1).status = "SHOW_FEEDBACK"
    /\ ~Round(1).receiverSawMessageTime
    /\ Round(1).senderReadyNext /\ Round(1).receiverReadyNext

\* C37: a completed instance (currentRound = numRounds + 1) is absorbing:
\* no call by the Sender, the Receiver or any other participant, of any
\* action including assign_role, writes anything, and no step changes any
\* field of the instance.
C37_CompletedIsAbsorbing ==
    /\ [](roundIndex = config.numRounds + 1 =>
             \A u \in UserIds, a \in Actions :
                 \A p \in PayloadsOf(a), h \in Snapshots :
                     submitSenderReceiverAction(publicData, config, StageId,
                                                u, a, p, h).updates = NoUpdates)
    /\ [][roundIndex = config.numRounds + 1 => publicData' = publicData]_vars

\* a call of a player has been refused after completion
C37_Witness ==
    /\ roundIndex = config.numRounds + 1
    /\ \A n \in 1..config.numRounds : HasRound(n) /\ Round(n).status = "SHOW_FEEDBACK"
    /\ response = "failed-precondition"

BothAssigned == ~Falsy(publicData.senderId) /\ ~Falsy(publicData.receiverId)

Completed ==
    /\ roundIndex = config.numRounds + 1
    /\ \A n \in 1..config.numRounds :
          HasRound(n) /\ Round(n).status = "SHOW_FEEDBACK"

\* a call other than receiver_saw_message that a player can make now and
\* that changes the instance
CanProgress ==
    \E u \in Players :
        \E a \in Actions \ {"receiver_saw_message"} :
            \E p \in PayloadsOf(a) :
                After(publicData, u, a, p) # publicData

\* C38: with players who go on playing, every instance with both roles
\* assigned eventually reaches completion (currentRound = numRounds + 1)
\* with every round 1..numRounds in SHOW_FEEDBACK; in every state before
\* completion some call of a player other than receiver_saw_message
\* changes the instance.
C38_EventuallyCompleted ==
    /\ BothAssigned ~> Completed
    /\ [](~Completed => CanProgress)

\* the instance is completed and no round has a receiverSawMessageTime
C38_Witness ==
    /\ BothAssigned
    /\ Completed
    /\ \A n \in 1..config.numRounds : ~Round(n).receiverSawMessageTime

(***************************************************************************)
(* The payoff computations on their own: the payoff table of the config is *)
(* drawn in the initial state, CalculatePayoffs calls calculatePayoffs and *)
(* ReceiverChoicePayoffs runs the payoff logic of the receiver_choice      *)
(* handler on a round with the given trueState and senderChoice.           *)
(***************************************************************************)
MaxPayoffCalls == 2

PayoffValues == {0, 20, 36}

PayoffTables ==
    {[createSenderReceiverStage(NumRounds, TRUE, TRUE) EXCEPT
          !.payoffSenderChoiceA = sA, !.payoffReceiverChoiceA = rA,
          !.payoffSenderChoiceB1 = sB1, !.payoffReceiverChoiceB1 = rB1,
          !.payoffSenderChoiceB2 = sB2, !.payoffReceiverChoiceB2 = rB2] :
        sA \in PayoffValues, rA \in PayoffValues, sB1 \in PayoffValues,
        rB1 \in PayoffValues, sB2 \in PayoffValues, rB2 \in PayoffValues}
      \cup {createSenderReceiverStage(NumRounds, TRUE, TRUE)}

PayInit ==
    /\ publicData = createSenderReceiverStagePublicData
    /\ config \in PayoffTables
    /\ response = "none"
    /\ generator = NoGenerator
    /\ payoffs = {}
    /\ rng = NoRng
    /\ timer = NoTimer

CalculatePayoffs(choice, trueState) ==
    /\ Cardinality(payoffs) < MaxPayoffCalls
    /\ payoffs' = payoffs \cup
          {[by |-> "calculatePayoffs", choice |-> choice,
            trueState |-> trueState, senderChoice |-> choice,
            result |-> calculatePayoffs(choice, trueState, config)]}
    /\ UNCHANGED <<publicData, config, response, generator, rng, timer>>

ReceiverChoicePayoffs(choice, trueState, senderChoice) ==
    /\ Cardinality(payoffs) < MaxPayoffCalls
    /\ LET roundData ==
              [createNewRound(1, config, pairSeed("a", "b", StageId), TRUE)
                  EXCEPT !.trueState = trueState,
                         !.senderChoice = senderChoice]
       IN  payoffs' = payoffs \cup
              {[by |-> "receiver_choice", choice |-> choice,
                trueState |-> trueState, senderChoice |-> senderChoice,
                result |-> PayoffLogic(roundData, config, choice)]}
    /\ UNCHANGED <<publicData, config, response, generator, rng, timer>>

PayNext ==
    \/ \E c \in {"A", "B"}, s \in {1, 2} : CalculatePayoffs(c, s)
    \/ \E c \in {"A", "B"}, s \in {1, 2}, sc \in {"A", "B", NULL} :
          ReceiverChoicePayoffs(c, s, sc)

PaySpec == PayInit /\ [][PayNext]_vars

(***************************************************************************)
(* Properties of the payoff computations, over PaySpec.                    *)
(***************************************************************************)
\* C26: calculatePayoffs(choice, trueState, config) returns
\* (payoffSenderChoiceA, payoffReceiverChoiceA) for choice A,
\* (payoffSenderChoiceB1, payoffReceiverChoiceB1) for choice B with
\* trueState 1 and (payoffSenderChoiceB2, payoffReceiverChoiceB2) for choice
\* B with trueState 2, for every config; with the default table, choice B
\* and trueState 1 give sender 0 and receiver 36.
C26_PayoffTable ==
    \A c \in payoffs :
        c.by = "calculatePayoffs" =>
            /\ (c.choice = "A") =>
                  /\ c.result.senderPayoff = config.payoffSenderChoiceA
                  /\ c.result.receiverPayoff = config.payoffReceiverChoiceA
            /\ (c.choice = "B" /\ c.trueState = 1) =>
                  /\ c.result.senderPayoff = config.payoffSenderChoiceB1
                  /\ c.result.receiverPayoff = config.payoffReceiverChoiceB1
            /\ (c.choice = "B" /\ c.trueState = 2) =>
                  /\ c.result.senderPayoff = config.payoffSenderChoiceB2
                  /\ c.result.receiverPayoff = config.payoffReceiverChoiceB2
            /\ (/\ config = createSenderReceiverStage(NumRounds, TRUE, TRUE)
                /\ c.choice = "B" /\ c.trueState = 1) =>
                  /\ c.result.senderPayoff = 0
                  /\ c.result.receiverPayoff = 36

\* with the default table, calculatePayoffs has been called for choice B in
\* both states
C26_Witness ==
    /\ config = createSenderReceiverStage(NumRounds, TRUE, TRUE)
    /\ \E c \in payoffs :
          /\ c.by = "calculatePayoffs" /\ c.choice = "B" /\ c.trueState = 1
          /\ c.result = [senderPayoff |-> 0, receiverPayoff |-> 36]
    /\ \E c \in payoffs :
          /\ c.by = "calculatePayoffs" /\ c.choice = "B" /\ c.trueState = 2

\* two computations by the same code for the same choice in the two states;
\* for the handler, on rounds with the same committed senderChoice
SameChoiceBothStates(c1, c2) ==
    /\ c1.by = c2.by
    /\ c1.choice = c2.choice
    /\ c1.senderChoice = c2.senderChoice
    /\ c1.senderChoice # NULL
    /\ c1.trueState = 1
    /\ c2.trueState = 2

\* C27: for every config the payoff pair for choice A is the same for
\* trueState 1 and trueState 2, and the payoff pair for choice B under
\* trueState 1 differs from the pair under trueState 2 whenever
\* (payoffSenderChoiceB1, payoffReceiverChoiceB1) differs from
\* (payoffSenderChoiceB2, payoffReceiverChoiceB2); both for calculatePayoffs
\* and for the handler's logic on a round with a committed senderChoice.
C27_PayoffAndState ==
    \A c1 \in payoffs, c2 \in payoffs :
        SameChoiceBothStates(c1, c2) =>
            /\ c1.choice = "A" => c1.result = c2.result
            /\ (/\ c1.choice = "B"
                /\ <<config.payoffSenderChoiceB1, config.payoffReceiverChoiceB1>>
                      # <<config.payoffSenderChoiceB2, config.payoffReceiverChoiceB2>>)
                  => c1.result # c2.result

\* the handler's logic has run for choice B in both states under a table
\* whose B rows differ in the receiver's payoff only
C27_Witness ==
    /\ config.payoffSenderChoiceB1 = config.payoffSenderChoiceB2
    /\ config.payoffReceiverChoiceB1 # config.payoffReceiverChoiceB2
    /\ \E c1 \in payoffs, c2 \in payoffs :
          /\ SameChoiceBothStates(c1, c2)
          /\ c1.by = "receiver_choice"
          /\ c1.choice = "B"
          /\ c1.result # c2.result

(***************************************************************************)
(* One SeededRandom object on its own: the seed string is drawn in the     *)
(* initial state, which is the object after its constructor; RngNextCall   *)
(* calls next() and RngShuffle calls shuffle() on it.                      *)
(***************************************************************************)
MaxRngCalls == 3

\* "vakpjdh" hashes to 230538014, the state whose successor under exact
\* arithmetic modulo 2^31 would be 0x7fffffff; "xfjfxtf" hashes to -2^31,
\* which Math.abs turns into 2^31
RngSeeds ==
    Seeds \cup {<<118, 97, 107, 112, 106, 100, 104>>,
                <<120, 102, 106, 102, 120, 116, 102>>}

ShuffleInputs == {<<>>, <<1>>, <<1, 2>>, <<1, 1, 2>>, <<1, 2, 3, 4>>}

RngInit ==
    /\ publicData = createSenderReceiverStagePublicData
    /\ config = createSenderReceiverStage(NumRounds, TRUE, TRUE)
    /\ response = "none"
    /\ generator = NoGenerator
    /\ payoffs = {}
    /\ rng \in {[NoRng EXCEPT !.seed = NewSeededRandom(s, <<>>)] : s \in RngSeeds}
    /\ timer = NoTimer

\* next(): the value returned is state / 0x7fffffff
RngNextCall ==
    /\ Len(rng.calls) < MaxRngCalls
    /\ \E s \in {nextSeed(rng.seed)} :
          rng' = [seed |-> s,
                  calls |-> Append(rng.calls,
                                   [op |-> "next", from |-> rng.seed,
                                    state |-> Low31(s)])]
    /\ UNCHANGED <<publicData, config, response, generator, payoffs, timer>>

\* shuffle(arr); 0 stands for the undefined of a read past the end
RngShuffle(arr) ==
    /\ Len(rng.calls) < MaxRngCalls
    /\ \E sh \in {shuffle(arr, rng.seed, 0)} :
          rng' = [seed |-> sh.seed,
                  calls |-> Append(rng.calls,
                                   [op |-> "shuffle", from |-> rng.seed,
                                    input |-> arr, output |-> sh.arr,
                                    swaps |-> SwapIndices(Len(arr) - 1, rng.seed)])]
    /\ UNCHANGED <<publicData, config, response, generator, payoffs, timer>>

RngStep ==
    \/ RngNextCall
    \/ \E arr \in ShuffleInputs : RngShuffle(arr)

RngSpec == RngInit /\ [][RngStep]_vars

(***************************************************************************)
(* Properties of SeededRandom, over RngSpec.                               *)
(***************************************************************************)
Count(arr, v) == Cardinality({k \in DOMAIN arr : arr[k] = v})

IsPermutation(out, in) ==
    /\ Len(out) = Len(in)
    /\ \A k \in DOMAIN out : Count(out, out[k]) = Count(in, out[k])

\* C31: next() always returns a value v with 0 <= v < 1, that is, the
\* state it leaves is at least 0 and strictly smaller than the divisor; in
\* shuffle every swap index j satisfies 0 <= j <= i, and the result is a
\* permutation of the input, of the same length.
C31_NextBelowOne ==
    \A k \in DOMAIN rng.calls :
        LET c == rng.calls[k]
        IN  /\ c.op = "next" => 0 <= c.state /\ c.state < LcgDivisor
            /\ c.op = "shuffle" =>
                  /\ \A n \in DOMAIN c.swaps :
                        0 <= c.swaps[n].j /\ c.swaps[n].j <= c.swaps[n].i
                  /\ IsPermutation(c.output, c.input)

\* from the seed that hashes to 230538014, next() has been called and four
\* elements have been shuffled into another order
C31_Witness ==
    /\ Len(rng.calls) >= 2
    /\ rng.calls[1].op = "next"
    /\ rng.calls[1].from = BigFromInt(230538014)
    /\ rng.calls[2].op = "shuffle"
    /\ Len(rng.calls[2].swaps) = 3
    /\ rng.calls[2].output # rng.calls[2].input

(***************************************************************************)
(* One CountdownTimer on its own: durationSeconds is drawn in the initial  *)
(* state, which is the timer after its constructor; TimerStart and         *)
(* TimerStop are the calls of start() and stop(), and IntervalTick is one  *)
(* run of the callback of an interval that is still set.  A callback runs  *)
(* to its end before anything else happens.                                *)
(***************************************************************************)
MaxDuration == 2
MaxStarts == 3
MaxOvershoot == 2

TimerInit ==
    /\ publicData = createSenderReceiverStagePublicData
    /\ config = createSenderReceiverStage(NumRounds, TRUE, TRUE)
    /\ response = "none"
    /\ generator = NoGenerator
    /\ payoffs = {}
    /\ rng = NoRng
    /\ timer \in {[NoTimer EXCEPT !.remaining = d] : d \in 0..MaxDuration}

\* stop(): clears the interval intervalId names, if any
stop(t) ==
    IF t.intervalId # 0
    THEN [t EXCEPT !.intervals = @ \ {t.intervalId}, !.intervalId = 0]
    ELSE t

\* start(): sets a new interval and keeps its id; the id it held is
\* overwritten, not cleared
TimerStart ==
    /\ timer.starts < MaxStarts
    /\ timer' = [timer EXCEPT !.starts = @ + 1,
                              !.intervalId = timer.starts + 1,
                              !.intervals = @ \cup {timer.starts + 1},
                              !.stopped = FALSE,
                              !.last = "start"]
    /\ UNCHANGED <<publicData, config, response, generator, payoffs, rng>>

TimerStop ==
    /\ timer' = [stop(timer) EXCEPT !.stopped = TRUE, !.last = "stop"]
    /\ UNCHANGED <<publicData, config, response, generator, payoffs, rng>>

\* the callback of the interval id: remaining--, onTick, and at 0 or below
\* stop() and onComplete
IntervalTick(id) ==
    /\ id \in timer.intervals
    /\ timer.remaining > 0 - MaxOvershoot
    /\ LET ticked == [timer EXCEPT !.remaining = @ - 1,
                                   !.firedAfterStop = @ \/ timer.stopped,
                                   !.last = "tick"]
       IN  timer' = IF ticked.remaining <= 0
                    THEN [stop(ticked) EXCEPT !.completes = @ + 1,
                                              !.last = "complete"]
                    ELSE ticked
    /\ UNCHANGED <<publicData, config, response, generator, payoffs, rng>>

TimerNext ==
    \/ TimerStart
    \/ TimerStop
    \/ \E id \in 1..MaxStarts : IntervalTick(id)

TimerSpec == TimerInit /\ [][TimerNext]_vars

(***************************************************************************)
(* Properties of CountdownTimer, over TimerSpec.                           *)
(***************************************************************************)
\* isRunning()
isRunning == timer.intervalId # 0

\* C39: for any sequence of start(), stop() and interval ticks on one
\* CountdownTimer, onComplete is invoked at most once, no onTick or
\* onComplete fires after stop() has returned, and isRunning() is false
\* after onComplete has fired, also when start() is called more than once.
C39_TimerCompletesOnce ==
    /\ timer.completes <= 1
    /\ ~timer.firedAfterStop
    /\ timer.last = "complete" => ~isRunning

(***************************************************************************)
(* Properties of the generator, over GenSpec.                              *)
(***************************************************************************)
\* the rounds of an array with trueState s
Bucket(arr, s) == {k \in DOMAIN arr : arr[k].trueState = s}

\* the number of entries of a bucket whose field f is v
CountIn(arr, bucket, f, v) == Cardinality({k \in bucket : arr[k][f] = v})

\* C22: generateBalancedDefaults returns numRounds entries with round =
\* 1..numRounds in order; the number k of those with trueState = 1 is
\* round(numRounds * state1Probability), the integer with
\* k <= numRounds * p + 1/2 < k + 1, and all the others have trueState = 2.
C22_StateCounts ==
    \A c \in DOMAIN generator.results :
        LET arr == generator.results[c]
            n == generator.args.numRounds
            pNum == generator.args.p[1]
            pDen == generator.args.p[2]
            k == Cardinality(Bucket(arr, 1))
        IN  /\ DOMAIN arr = 1..n
            /\ \A i \in 1..n : arr[i].round = i
            /\ 2 * pDen * k <= 2 * n * pNum + pDen
            /\ 2 * n * pNum + pDen < 2 * pDen * (k + 1)
            /\ Cardinality(Bucket(arr, 2)) = n - k
            /\ (n = 4 /\ pNum = 1 /\ pDen = 2) => k = 2

\* numRounds = 5 and p = 1/2 have given three rounds of state 1 and two of
\* state 2
C22_Witness ==
    /\ generator.args.numRounds = 5
    /\ generator.args.p = <<1, 2>>
    /\ Len(generator.results) > 0
    /\ Cardinality(Bucket(generator.results[1], 1)) = 3
    /\ Cardinality(Bucket(generator.results[1], 2)) = 2

\* C23: among the rounds of a returned array with trueState = 1, and among
\* those with trueState = 2, the senderDefault values are floor(n / 2) times
\* A and n - floor(n / 2) times B, n being the size of the bucket, and so
\* are the receiverDefault values; no default is null or undefined.
C23_DefaultsBalanced ==
    \A c \in DOMAIN generator.results :
        LET arr == generator.results[c]
        IN  \A s \in {1, 2}, f \in {"senderDefault", "receiverDefault"} :
                LET bucket == Bucket(arr, s)
                    n == Cardinality(bucket)
                IN  /\ CountIn(arr, bucket, f, "A") = n \div 2
                    /\ CountIn(arr, bucket, f, "B") = n - (n \div 2)

\* numRounds = 4 and p = 1/2: the two rounds of state 1 have one sender
\* default A and one B, and the receiver defaults of some bucket are in
\* another order than its sender defaults
C23_Witness ==
    /\ generator.args.numRounds = 4
    /\ generator.args.p = <<1, 2>>
    /\ Len(generator.results) > 0
    /\ LET arr == generator.results[1]
       IN  /\ Cardinality(Bucket(arr, 1)) = 2
           /\ CountIn(arr, Bucket(arr, 1), "senderDefault", "A") = 1
           /\ CountIn(arr, Bucket(arr, 1), "senderDefault", "B") = 1
           /\ \E k \in DOMAIN arr : arr[k].senderDefault # arr[k].receiverDefault

=============================================================================
